---------------------------- MODULE Spec2Model ----------------------------
(***************************************************************************)
(* A model of the MiniML back end: the SECD-style machine of               *)
(* src/src/machine/mod.rs (value stack, environment stack, activation      *)
(* stack, environment heap, moving collector), the surface type checker of *)
(* src/src/typecheck.rs and the compiler of src/src/compile.rs.            *)
(*                                                                         *)
(* Conventions.  A Vec is a sequence whose LAST element is the top of the  *)
(* stack.  Heap indices (Closure.env) are 0-based as in the source, so the *)
(* environment of a closure c is storage[c.env + 1].  An environment       *)
(* (HashMap<Name, Value>) is a total function over Names whose absent keys *)
(* map to Unbound.  i64 is scaled down to IntBits-bit two's complement.    *)
(***************************************************************************)
EXTENDS Integers, Sequences, FiniteSets, TLC

VARIABLES
    source,          \* the surface expression the program was compiled from, or NoExpr
    program,         \* Machine.program
    storage,         \* Machine.storage: the environment heap
    values,          \* Machine.values
    environments,    \* Machine.environments
    activations,     \* Machine.activations
    step,            \* the local `step` of Machine::exec
    outcome,         \* what exec() has returned, or Running
    gc_every,        \* the collection period (92 in the source)
    overflow_checks, \* whether the build traps arithmetic overflow (debug profile)
    ref,             \* a second Machine with gc() never called, stepped with the first:
                     \* on the same program, or on the program of Twin(source)
    last,            \* the instruction the last loop iteration fetched, and the machine before it
    renamer,         \* ir.rs Renamer.names of one desugar run
    looked,          \* the calls of Renamer::lookup so far: <<[name, id]>>
    input,           \* the tokens handed to the parser
    parsed,          \* what parse(input) has returned, or NotParsed
    typed            \* what typecheck(source) has returned, or NotTyped

vars == <<source, program, storage, values, environments, activations, step,
          outcome, gc_every, overflow_checks, ref, last, renamer, looked, input, parsed, typed>>

----------------------------------------------------------------------------
(* Bounds of the model *)

IntBits == 4
MaxSteps == 30
MaxSetup == 2
MaxInterval == 3
MaxLookups == 4
MaxArg == 2
MaxIrSteps == 300
MaxOperands == 4

GC_PERIOD == 92

MinInt == -(2 ^ (IntBits - 1))
MaxInt == (2 ^ (IntBits - 1)) - 1
Names == 0 .. 5

----------------------------------------------------------------------------
(* Values: src/src/machine/value.rs *)

IntV(i) == [tag |-> "Int", i |-> i]
BoolV(b) == [tag |-> "Bool", b |-> b]
ClosureV(arg, frame, env) == [tag |-> "Closure", arg |-> arg, frame |-> frame, env |-> env]
Unbound == [tag |-> "Unbound"]
EmptyEnv == [n \in Names |-> Unbound]

(* Instructions: the variants matched in Instruction::exec *)
PushInt(i) == [op |-> "PushInt", i |-> i]
PushBool(b) == [op |-> "PushBool", b |-> b]
Arith(k) == [op |-> "Arith", kind |-> k]
Cmp(k) == [op |-> "Cmp", kind |-> k]
Branch(tru, fls) == [op |-> "Branch", tru |-> tru, fls |-> fls]
Var(name) == [op |-> "Var", name |-> name]
Closure(name, arg, frame) == [op |-> "Closure", name |-> name, arg |-> arg, frame |-> frame]
Call == [op |-> "Call"]
PopEnv == [op |-> "PopEnv"]
NoInst == [op |-> "None"]

ArithKinds == {"Add", "Sub", "Mul", "Div"}
CmpKinds == {"Lt", "Eq", "Gt"}

(* Errors *)
NoError == "ok"
Panic == "panic"
runtime_error(message) == message
fatal_error(message) == "Fatal: " \o message \o " :("

DivisionByZero == runtime_error("Division by zero")
EmptyStack == fatal_error("empty stack")
RuntimeTypeError == fatal_error("runtime type error")
UndefinedVariable == fatal_error("undefined variable")
NoEnvironment == fatal_error("no environment")
LeftoverStack == fatal_error("more then one value on stack left")

Last(s) == s[Len(s)]
Front(s) == SubSeq(s, 1, Len(s) - 1)

----------------------------------------------------------------------------
(* Machine methods.  A machine is a record m of the four mutable fields.   *)
(* A method returning Result<T> yields [ok, val, err, m]: m is the machine *)
(* as the method leaves it, also on the error path.                        *)

Machine_new(p) ==
    [storage |-> <<>>, values |-> <<>>, environments |-> <<EmptyEnv>>,
     activations |-> <<p>>]

(* fetch_instruction that leaves the instruction it returns in its activation *)
fetch_instruction_no_advance(m) ==
    IF m.activations = <<>>
    THEN [some |-> FALSE, m |-> m]
    ELSE IF Last(m.activations) = <<>>
    THEN [some |-> FALSE, m |-> [m EXCEPT !.activations = Front(m.activations)]]
    ELSE [some |-> TRUE, inst |-> Head(Last(m.activations)), m |-> m]

fetch_instruction(m) ==
    IF m.activations = <<>>
    THEN [some |-> FALSE, m |-> m]
    ELSE LET act == Last(m.activations)
             popped == [m EXCEPT !.activations = Front(m.activations)]
         IN  IF act = <<>>
             THEN [some |-> FALSE, m |-> popped]
             ELSE [some |-> TRUE, inst |-> Head(act),
                   m |-> IF Tail(act) # <<>>
                         THEN [popped EXCEPT !.activations = Append(@, Tail(act))]
                         ELSE popped]

(* switch_frame that puts the frame in the place of the top activation *)
switch_frame_replacing(m, frame) ==
    [m EXCEPT !.activations = IF @ = <<>> THEN <<frame>> ELSE Append(Front(@), frame)]

switch_frame(m, frame) == [m EXCEPT !.activations = Append(@, frame)]

push_value(m, value) == [m EXCEPT !.values = Append(@, value)]
push_int(m, i) == push_value(m, IntV(i))
push_bool(m, b) == push_value(m, BoolV(b))

pop_value(m) ==
    IF m.values = <<>>
    THEN [ok |-> FALSE, err |-> EmptyStack, m |-> m]
    ELSE [ok |-> TRUE, val |-> Last(m.values), m |-> [m EXCEPT !.values = Front(@)]]

(* pop_int as it would be if a value of the wrong type were reported as a missing one *)
pop_int_empty_on_mismatch(m) ==
    LET r == pop_value(m)
    IN  IF ~r.ok THEN r
        ELSE IF r.val.tag = "Int" THEN [ok |-> TRUE, val |-> r.val.i, m |-> r.m]
        ELSE [ok |-> FALSE, err |-> EmptyStack, m |-> r.m]

pop_int(m) ==
    LET r == pop_value(m)
    IN  IF ~r.ok THEN r
        ELSE IF r.val.tag = "Int" THEN [ok |-> TRUE, val |-> r.val.i, m |-> r.m]
        ELSE [ok |-> FALSE, err |-> RuntimeTypeError, m |-> r.m]

pop_bool(m) ==
    LET r == pop_value(m)
    IN  IF ~r.ok THEN r
        ELSE IF r.val.tag = "Bool" THEN [ok |-> TRUE, val |-> r.val.b, m |-> r.m]
        ELSE [ok |-> FALSE, err |-> RuntimeTypeError, m |-> r.m]

pop_closure(m) ==
    LET r == pop_value(m)
    IN  IF ~r.ok THEN r
        ELSE IF r.val.tag = "Closure" THEN r
        ELSE [ok |-> FALSE, err |-> RuntimeTypeError, m |-> r.m]

(* current_env unwraps environments.last(): with no environment it panics *)
has_current_env(m) == m.environments # <<>>
current_env(m) == Last(m.environments)

lookup(m, name) ==
    IF ~has_current_env(m) THEN [ok |-> FALSE, err |-> Panic, m |-> m]
    ELSE IF current_env(m)[name] = Unbound
    THEN [ok |-> FALSE, err |-> UndefinedVariable, m |-> m]
    ELSE [ok |-> TRUE, val |-> current_env(m)[name], m |-> m]

(* pop_env without the `self.environments.len() == 0` test *)
pop_env_unchecked(m) ==
    [ok |-> TRUE, m |-> [m EXCEPT !.environments = Front(@)]]

pop_env(m) ==
    IF Len(m.environments) = 0
    THEN [ok |-> FALSE, err |-> NoEnvironment, m |-> m]
    ELSE [ok |-> TRUE, m |-> [m EXCEPT !.environments = Front(@)]]

----------------------------------------------------------------------------
(* Integer arithmetic on the scaled-down i64 *)

InRange(x) == MinInt <= x /\ x <= MaxInt
Wrap(x) == ((x - MinInt) % (2 ^ IntBits)) + MinInt
Abs(x) == IF x < 0 THEN -x ELSE x

(* Rust's `/` on integers truncates toward zero *)
TruncDiv(a, b) ==
    IF (a < 0) = (b < 0) THEN Abs(a) \div Abs(b) ELSE -(Abs(a) \div Abs(b))

(* The mathematical value of `op1 <kind> op2` for Add, Sub, Mul and a non-zero Div *)
arith_op(kind, op1, op2) ==
    CASE kind = "Add" -> op1 + op2
      [] kind = "Sub" -> op1 - op2
      [] kind = "Mul" -> op1 * op2
      [] kind = "Div" -> TruncDiv(op1, op2)

cmp_op(kind, op1, op2) ==
    CASE kind = "Lt" -> op1 < op2
      [] kind = "Eq" -> op1 = op2
      [] kind = "Gt" -> op1 > op2

(* `ret` of ArithInstruction::exec: what `op1 <kind> op2` evaluates to on the  *)
(* machine.  An overflowing +, -, * traps when the build checks overflow     *)
(* and wraps otherwise; MIN / -1 traps in every build.                       *)
(* arith_ret without the `if op2 == 0` test of Div: the division itself traps *)
arith_ret_unguarded(kind, op1, op2, oc) ==
    IF kind = "Div" /\ op2 = 0 THEN [err |-> Panic]
    ELSE IF InRange(arith_op(kind, op1, op2)) THEN [err |-> NoError, ret |-> arith_op(kind, op1, op2)]
    ELSE IF kind = "Div" \/ oc THEN [err |-> Panic]
    ELSE [err |-> NoError, ret |-> Wrap(arith_op(kind, op1, op2))]

arith_ret(kind, op1, op2, oc) ==
    IF kind = "Div" /\ op2 = 0 THEN [err |-> DivisionByZero]
    ELSE IF InRange(arith_op(kind, op1, op2)) THEN [err |-> NoError, ret |-> arith_op(kind, op1, op2)]
    ELSE IF kind = "Div" \/ oc THEN [err |-> Panic]
    ELSE [err |-> NoError, ret |-> Wrap(arith_op(kind, op1, op2))]

exec_arith(kind, m, oc) ==
    LET r2 == pop_int(m)
    IN  IF ~r2.ok THEN [err |-> r2.err, m |-> r2.m]
        ELSE LET r1 == pop_int(r2.m)
             IN  IF ~r1.ok THEN [err |-> r1.err, m |-> r1.m]
                 ELSE LET a == arith_ret(kind, r1.val, r2.val, oc)
                      IN  IF a.err # NoError THEN [err |-> a.err, m |-> r1.m]
                          ELSE [err |-> NoError, m |-> push_int(r1.m, a.ret)]

exec_cmp(kind, m) ==
    LET r2 == pop_int(m)
    IN  IF ~r2.ok THEN [err |-> r2.err, m |-> r2.m]
        ELSE LET r1 == pop_int(r2.m)
             IN  IF ~r1.ok THEN [err |-> r1.err, m |-> r1.m]
                 ELSE [err |-> NoError, m |-> push_bool(r1.m, cmp_op(kind, r1.val, r2.val))]

exec_branch(tru, fls, m) ==
    LET r == pop_bool(m)
    IN  IF ~r.ok THEN [err |-> r.err, m |-> r.m]
        ELSE [err |-> NoError, m |-> switch_frame(r.m, IF r.val THEN tru ELSE fls)]

exec_var(name, m) ==
    LET r == lookup(m, name)
    IN  IF ~r.ok THEN [err |-> r.err, m |-> r.m]
        ELSE [err |-> NoError, m |-> push_value(r.m, r.val)]

(* The Closure arm with the self binding inserted into the current environment *)
(* itself, the heap receiving that same environment                           *)
exec_closure_in_place(name, arg, frame, m) ==
    IF ~has_current_env(m) THEN [err |-> Panic, m |-> m]
    ELSE LET env_idx == Len(m.storage)
             value == ClosureV(arg, frame, env_idx)
             env == [current_env(m) EXCEPT ![name] = value]
         IN  [err |-> NoError,
              m |-> push_value([m EXCEPT !.storage = Append(@, env),
                                         !.environments[Len(m.environments)] = env],
                               value)]

exec_closure(name, arg, frame, m) ==
    IF ~has_current_env(m) THEN [err |-> Panic, m |-> m]
    ELSE LET env_idx == Len(m.storage)
             value == ClosureV(arg, frame, env_idx)
             env == [current_env(m) EXCEPT ![name] = value]
         IN  [err |-> NoError,
              m |-> push_value([m EXCEPT !.storage = Append(@, env)], value)]

(* The Call arm extending the captured environment in the heap, without the clone *)
exec_call_in_heap(m) ==
    LET ra == pop_value(m)
    IN  IF ~ra.ok THEN [err |-> ra.err, m |-> ra.m]
        ELSE LET rc == pop_closure(ra.m)
             IN  IF ~rc.ok THEN [err |-> rc.err, m |-> rc.m]
                 ELSE IF rc.val.env >= Len(rc.m.storage) THEN [err |-> Panic, m |-> rc.m]
                 ELSE LET env == [rc.m.storage[rc.val.env + 1] EXCEPT ![rc.val.arg] = ra.val]
                      IN  [err |-> NoError,
                           m |-> switch_frame([rc.m EXCEPT !.environments = Append(@, env),
                                                           !.storage[rc.val.env + 1] = env],
                                              rc.val.frame)]

exec_call(m) ==
    LET ra == pop_value(m)
    IN  IF ~ra.ok THEN [err |-> ra.err, m |-> ra.m]
        ELSE LET rc == pop_closure(ra.m)
             IN  IF ~rc.ok THEN [err |-> rc.err, m |-> rc.m]
                 ELSE IF rc.val.env >= Len(rc.m.storage) THEN [err |-> Panic, m |-> rc.m]
                 ELSE LET env == [rc.m.storage[rc.val.env + 1] EXCEPT ![rc.val.arg] = ra.val]
                      IN  [err |-> NoError,
                           m |-> switch_frame([rc.m EXCEPT !.environments = Append(@, env)],
                                              rc.val.frame)]

(* PopEnv that leaves the environment stack as it is *)
exec_pop_env_keep(m) == [err |-> NoError, m |-> m]

exec_pop_env(m) ==
    LET r == pop_env(m) IN [err |-> IF r.ok THEN NoError ELSE r.err, m |-> r.m]

(* impl Exec for Instruction *)
exec_instruction(inst, m, oc) ==
    CASE inst.op = "Arith" -> exec_arith(inst.kind, m, oc)
      [] inst.op = "Cmp" -> exec_cmp(inst.kind, m)
      [] inst.op = "PushInt" -> [err |-> NoError, m |-> push_int(m, inst.i)]
      [] inst.op = "PushBool" -> [err |-> NoError, m |-> push_bool(m, inst.b)]
      [] inst.op = "Branch" -> exec_branch(inst.tru, inst.fls, m)
      [] inst.op = "Var" -> exec_var(inst.name, m)
      [] inst.op = "Closure" -> exec_closure(inst.name, inst.arg, inst.frame, m)
      [] inst.op = "Call" -> exec_call(m)
      [] inst.op = "PopEnv" -> exec_pop_env(m)

----------------------------------------------------------------------------
(* The collector: Machine::gc and collect.                                 *)
(*                                                                         *)
(* A `&mut Value` of a work list is a location: a slot of the value stack, *)
(* a binding of an environment on the environment stack, or a binding of   *)
(* an environment already moved to new_storage.  HashMap iteration order   *)
(* is unspecified: a collection visits the bindings of every environment  *)
(* in one of KeyOrders.                                                    *)

KeyOrders == {"ascending", "descending"}
NameCount == Cardinality(Names)
KeySeq(ord) ==
    IF ord = "ascending" THEN [k \in 1 .. NameCount |-> k - 1]
    ELSE [k \in 1 .. NameCount |-> NameCount - k]

NotMoved == -1

(* env.iter_mut().map(|(_key, value)| value) for the environment at index i of `where` *)
EnvLocs(where, i, env, ord) ==
    LET keys == SelectSeq(KeySeq(ord), LAMBDA n : env[n] # Unbound)
    IN  [k \in 1 .. Len(keys) |-> [where |-> where, i |-> i, name |-> keys[k]]]

RECURSIVE EnvsLocsIn(_, _, _, _, _)
(* flat_map over envs[from .. to], by halves *)
EnvsLocsIn(where, envs, from, to, ord) ==
    IF from > to THEN <<>>
    ELSE IF from = to THEN EnvLocs(where, from, envs[from], ord)
    ELSE EnvsLocsIn(where, envs, from, (from + to) \div 2, ord)
         \o EnvsLocsIn(where, envs, ((from + to) \div 2) + 1, to, ord)

(* flat_map over envs[from ..] *)
EnvsLocs(where, envs, from, ord) == EnvsLocsIn(where, envs, from, Len(envs), ord)

ValueLocs(vals) == [k \in 1 .. Len(vals) |-> [where |-> "values", i |-> k]]

ValueAt(acc, loc) ==
    CASE loc.where = "values" -> acc.values[loc.i]
      [] loc.where = "environments" -> acc.environments[loc.i][loc.name]
      [] loc.where = "new_storage" -> acc.new_storage[loc.i][loc.name]

(* closure.env = new_index through the mutable reference *)
SetEnvIndex(acc, loc, new_index) ==
    CASE loc.where = "values" -> [acc EXCEPT !.values[loc.i].env = new_index]
      [] loc.where = "environments" ->
            [acc EXCEPT !.environments[loc.i][loc.name].env = new_index]
      [] loc.where = "new_storage" ->
            [acc EXCEPT !.new_storage[loc.i][loc.name].env = new_index]

(* collect's loop body without the `closure.env = new_index` of the already-moved arm *)
collect_value_no_rewrite(acc, loc, start_index) ==
    LET value == ValueAt(acc, loc)
    IN  IF value.tag # "Closure" THEN acc
        ELSE IF acc.move_map[value.env] # NotMoved
        THEN acc
        ELSE LET new_index == start_index + Len(acc.wave)
                 moved == [acc EXCEPT !.move_map[value.env] = new_index,
                                      !.wave = Append(@, acc.old_envs[value.env + 1]),
                                      !.old_envs[value.env + 1] = EmptyEnv]
             IN  SetEnvIndex(moved, loc, new_index)

(* collect's loop body without the lookup in move_map: every closure met     *)
(* moves its environment anew                                                *)
collect_value_always_moving(acc, loc, start_index) ==
    LET value == ValueAt(acc, loc)
    IN  IF value.tag # "Closure" THEN acc
        ELSE LET new_index == start_index + Len(acc.wave)
                 after == [acc EXCEPT !.move_map[value.env] = new_index,
                                      !.wave = Append(@, acc.old_envs[value.env + 1]),
                                      !.old_envs[value.env + 1] = EmptyEnv]
             IN  SetEnvIndex(after, loc, new_index)

(* One iteration of the `for value in work` loop of collect *)
collect_value(acc, loc, start_index) ==
    LET value == ValueAt(acc, loc)
    IN  IF value.tag # "Closure" THEN acc
        ELSE IF acc.move_map[value.env] # NotMoved
        THEN SetEnvIndex(acc, loc, acc.move_map[value.env])
        ELSE LET new_index == start_index + Len(acc.wave)
                 moved == [acc EXCEPT !.move_map[value.env] = new_index,
                                      !.wave = Append(@, acc.old_envs[value.env + 1]),
                                      !.old_envs[value.env + 1] = EmptyEnv]
             IN  SetEnvIndex(moved, loc, new_index)

RECURSIVE collect_from(_, _, _, _, _)
(* The iterations of `for value in work` for work[from .. to], in order, by halves: *)
(* the first half is computed, then the second half runs on its result              *)
collect_from(work, from, to, acc, start_index) ==
    IF from > to THEN acc
    ELSE IF from = to THEN collect_value(acc, work[from], start_index)
    ELSE CHOOSE after \in
             { collect_from(work, ((from + to) \div 2) + 1, to, half, start_index) :
                 half \in {collect_from(work, from, (from + to) \div 2, acc, start_index)} } : TRUE

(* collect: acc.wave is the returned wave *)
collect(work, acc, start_index) ==
    collect_from(work, 1, Len(work), [acc EXCEPT !.wave = <<>>], start_index)

RECURSIVE gc_loop_one_wave(_, _, _)
(* The `loop` of Machine::gc left after its first wave *)
gc_loop_one_wave(acc, done, ord) ==
    LET move_index == Len(acc.new_storage)
        work == EnvsLocs("new_storage", acc.new_storage, done + 1, ord)
        after == collect(work, acc, move_index)
    IN  IF after.wave = <<>> THEN after
        ELSE [after EXCEPT !.new_storage = @ \o after.wave]

RECURSIVE gc_loop(_, _, _)
(* The `loop` of Machine::gc *)
gc_loop(acc, done, ord) ==
    LET move_index == Len(acc.new_storage)
        work == EnvsLocs("new_storage", acc.new_storage, done + 1, ord)
        after == collect(work, acc, move_index)
    IN  IF after.wave = <<>> THEN after
        ELSE gc_loop([after EXCEPT !.new_storage = @ \o after.wave], move_index, ord)

(* gc whose initial work is the value stack alone, the environment stack left out *)
gc_values_only(m, ord) ==
    LET initial_work == ValueLocs(m.values)
        acc0 == [values |-> m.values, environments |-> m.environments,
                 new_storage |-> <<>>,
                 move_map |-> [i \in 0 .. Len(m.storage) - 1 |-> NotMoved],
                 old_envs |-> m.storage, wave |-> <<>>]
        first == collect(initial_work, acc0, 0)
        final == gc_loop([first EXCEPT !.new_storage = first.wave], 0, ord)
        collected == [m EXCEPT !.values = final.values,
                               !.environments = final.environments,
                               !.storage = final.new_storage]
    IN  IF Len(final.new_storage) <= Len(m.storage)
        THEN [err |-> NoError, m |-> collected]
        ELSE [err |-> Panic, m |-> [collected EXCEPT !.storage = m.storage]]

(* `moved` when the loop of Machine::gc has ended: the new index of every    *)
(* heap index that was moved, NotMoved for the others                        *)
moved(m, ord) ==
    LET initial_work == ValueLocs(m.values) \o EnvsLocs("environments", m.environments, 1, ord)
        acc0 == [values |-> m.values, environments |-> m.environments,
                 new_storage |-> <<>>,
                 move_map |-> [i \in 0 .. Len(m.storage) - 1 |-> NotMoved],
                 old_envs |-> m.storage, wave |-> <<>>]
        first == collect(initial_work, acc0, 0)
    IN  gc_loop([first EXCEPT !.new_storage = first.wave], 0, ord).move_map

(* Machine::gc; err is Panic when the final assert! fails *)
gc(m, ord) ==
    LET initial_work == ValueLocs(m.values) \o EnvsLocs("environments", m.environments, 1, ord)
        acc0 == [values |-> m.values, environments |-> m.environments,
                 new_storage |-> <<>>,
                 move_map |-> [i \in 0 .. Len(m.storage) - 1 |-> NotMoved],
                 old_envs |-> m.storage, wave |-> <<>>]
        first == collect(initial_work, acc0, 0)
        final == gc_loop([first EXCEPT !.new_storage = first.wave], 0, ord)
        collected == [m EXCEPT !.values = final.values,
                               !.environments = final.environments,
                               !.storage = final.new_storage]
    IN  IF Len(final.new_storage) <= Len(m.storage)
        THEN [err |-> NoError, m |-> collected]
        ELSE [err |-> Panic, m |-> [collected EXCEPT !.storage = m.storage]]

----------------------------------------------------------------------------
(* Machine::exec.  A run is [m, step, outcome]: the machine, the local     *)
(* `step`, and what exec has returned so far.                              *)

Running == [kind |-> "Running"]
Ok(v) == [kind |-> "Ok", value |-> v]
Err(message) == [kind |-> "Err", message |-> message]
Aborted == [kind |-> "Panic"]

Outcome(err) == IF err = NoError THEN Running ELSE IF err = Panic THEN Aborted ELSE Err(err)

(* `if step % 92 == 0` with the period as a parameter *)
gc_due(n, period) == n % period = 0

(* The loop body with `try!` after the gc() call: a failing instruction is still *)
(* followed by the collection that is due                                        *)
exec_step_gc_first(run, collecting, period, oc, ord) ==
    LET f == fetch_instruction(run.m)
        n == run.step + 1
        e == exec_instruction(f.inst, f.m, oc)
    IN  IF collecting /\ gc_due(n, period)
        THEN [m |-> gc(e.m, ord).m, step |-> n,
              outcome |-> IF e.err # NoError THEN Outcome(e.err) ELSE Outcome(gc(e.m, ord).err)]
        ELSE [m |-> e.m, step |-> n, outcome |-> Outcome(e.err)]

(* One iteration of the `while let Some(inst)` loop, for a fetch that returns Some. *)
(* collecting = FALSE describes a machine whose exec never calls gc().              *)
exec_step(run, collecting, period, oc, ord) ==
    LET f == fetch_instruction(run.m)
        n == run.step + 1
        e == exec_instruction(f.inst, f.m, oc)
    IN  IF e.err # NoError THEN [m |-> e.m, step |-> n, outcome |-> Outcome(e.err)]
        ELSE IF collecting /\ gc_due(n, period)
        THEN [m |-> gc(e.m, ord).m, step |-> n, outcome |-> Outcome(gc(e.m, ord).err)]
        ELSE [m |-> e.m, step |-> n, outcome |-> Running]

(* The code after the loop without the `if !self.values.is_empty()` test *)
exec_finish_top_only(run) ==
    LET f == fetch_instruction(run.m)
        r == pop_value(f.m)
    IN  IF ~r.ok THEN [run EXCEPT !.m = r.m, !.outcome = Err(r.err)]
        ELSE [run EXCEPT !.m = r.m, !.outcome = Ok(r.val)]

(* The loop's exit (fetch returns None) and the code after the loop *)
exec_finish(run) ==
    LET f == fetch_instruction(run.m)
        r == pop_value(f.m)
    IN  IF ~r.ok THEN [run EXCEPT !.m = r.m, !.outcome = Err(r.err)]
        ELSE IF r.m.values # <<>> THEN [run EXCEPT !.m = r.m, !.outcome = Err(LeftoverStack)]
        ELSE [run EXCEPT !.m = r.m, !.outcome = Ok(r.val)]

RECURSIVE exec(_, _, _, _, _)
(* Machine::exec from `run` on, every collection visiting the bindings of an *)
(* environment in the order ord, followed for at most fuel iterations        *)
exec(run, period, oc, ord, fuel) ==
    IF run.outcome # Running \/ fuel = 0 THEN run
    ELSE IF fetch_instruction(run.m).some
    THEN CHOOSE end \in {exec(next, period, oc, ord, fuel - 1) :
                            next \in {exec_step(run, TRUE, period, oc, ord)}} : TRUE
    ELSE exec_finish(run)

----------------------------------------------------------------------------
(* Programs *)

Ints == {MinInt, -1, 0, 2}

Identity == Closure(0, 1, <<Var(1), PopEnv>>)

(* Instructions that leave a value on the stack *)
Operands ==
    {PushInt(i) : i \in Ints} \cup {PushBool(b) : b \in BOOLEAN} \cup {Identity}

Instructions ==
    Operands
    \cup {Arith(k) : k \in ArithKinds} \cup {Cmp(k) : k \in CmpKinds}
    \cup {Var(0), Var(1), Call, PopEnv}
    \cup {Branch(<<PushInt(2)>>, <<PushInt(0)>>),
          Branch(<<>>, <<PushBool(FALSE)>>),
          Branch(<<PushBool(TRUE), Branch(<<PushInt(-1)>>, <<>>)>>, <<>>)}

RECURSIVE SeqsUpTo(_, _)
SeqsUpTo(S, n) ==
    IF n = 0 THEN {<<>>}
    ELSE SeqsUpTo(S, n - 1) \cup {Append(q, x) : q \in {r \in SeqsUpTo(S, n - 1) : Len(r) = n - 1}, x \in S}

Setups == SeqsUpTo(Operands, MaxSetup)
Middles == {<<>>} \cup {<<i>> : i \in Instructions}
Tails == {<<>>, <<PushInt(2)>>, <<Var(0)>>}

(* A setup that builds the value stack, any one instruction, and a continuation *)
SmallPrograms == {pre \o mid \o post : pre \in Setups, mid \in Middles, post \in Tails}

(* tests::vars *)
VarsProgram == <<Closure(0, 1, <<Var(1)>>), PushInt(2), Call>>

(* tests::branch, third program *)
BranchProgram ==
    <<PushBool(TRUE), Branch(<<PushInt(2)>>, <<PushInt(0)>>),
      PushBool(FALSE), Branch(<<PushInt(2)>>, <<PushInt(-1)>>), Arith("Add")>>

(* tests::factorial, applied to 1 *)
FactorialProgram ==
    <<Closure(0, 1,
        <<PushInt(0), Var(1), Cmp("Eq"),
          Branch(<<PushInt(1)>>,
                 <<Var(1), Var(0), Var(1), PushInt(1), Arith("Sub"), Call, Arith("Mul")>>),
          PopEnv>>),
      PushInt(1), Call>>

(* tests::hof, applied to 1 *)
HofProgram ==
    <<Closure(0, 1,
        <<Closure(2, 3, <<Var(1), Var(1), Var(3), Call, Call, PopEnv>>), PopEnv>>),
      Closure(0, 1, <<Var(1), Var(1), Arith("Add"), PopEnv>>),
      Call, PushInt(1), Call>>

(* A closure called from inside another call: name 1 is bound in the caller's *)
(* environment and not in the callee's                                        *)
ScopeProgram ==
    <<Closure(0, 1, <<Var(1), PushInt(2), Call, PopEnv>>),
      Closure(2, 3, <<Var(1), PopEnv>>),
      Call>>

(* A call that returns a closure whose environment holds other closures *)
ReturnClosureProgram ==
    <<Closure(0, 1, <<Closure(2, 3, <<Var(1), PopEnv>>), PopEnv>>),
      Identity, Call>>

(* A function that calls itself forever *)
LoopProgram ==
    <<Closure(0, 1, <<Var(0), Var(1), Call, PopEnv>>), PushInt(0), Call>>

(* Garbage: every environment allocated is unreachable once its call has returned *)
GarbageProgram ==
    <<Identity, PushInt(2), Call,
      Closure(2, 3, <<Var(3), PopEnv>>), PushInt(0), Call, Arith("Add")>>

(* ret executed twice: the second finds no environment *)
DoublePopProgram == <<PopEnv, PopEnv>>

(* ret; a closure made with no environment left *)
PopThenClosureProgram == <<PopEnv, Identity>>

TestPrograms ==
    {VarsProgram, BranchProgram, FactorialProgram, HofProgram, ScopeProgram,
     ReturnClosureProgram, LoopProgram, GarbageProgram, DoublePopProgram,
     PopThenClosureProgram}

NoExpr == [kind |-> "None"]

----------------------------------------------------------------------------
(* Surface expressions (src/src/syntax/mod.rs) and types *)

Expr_Var(ident) == [kind |-> "Var", ident |-> ident]
Expr_Number(i) == [kind |-> "Number", i |-> i]
Expr_Bool(b) == [kind |-> "Bool", b |-> b]
Expr_Arith(op, lhs, rhs) == [kind |-> "ArithBinOp", op |-> op, lhs |-> lhs, rhs |-> rhs]
Expr_Cmp(op, lhs, rhs) == [kind |-> "CmpBinOp", op |-> op, lhs |-> lhs, rhs |-> rhs]
Expr_If(cond, tru, fls) == [kind |-> "If", cond |-> cond, tru |-> tru, fls |-> fls]
Expr_Fun(name, arg_name, arg_type, fun_type, body) ==
    [kind |-> "Fun", name |-> name, arg_name |-> arg_name, arg_type |-> arg_type,
     fun_type |-> fun_type, body |-> body]
Expr_Apply(fun, arg) == [kind |-> "Apply", fun |-> fun, arg |-> arg]

Type_Int == [t |-> "Int"]
Type_Bool == [t |-> "Bool"]
Type_Arrow(arg, ret) == [t |-> "Arrow", arg |-> arg, ret |-> ret]
maps_to(self, other) == Type_Arrow(self, other)
TypeError == [t |-> "TypeError"]

----------------------------------------------------------------------------
(* The type checker: src/src/typecheck.rs with the StackContext of         *)
(* src/src/context.rs.  A context is a sequence of [ident, type] pairs,    *)
(* the last pushed last; Err(TypeError) is the value TypeError.            *)

(* StackContext::lookup: the most recently pushed binding of `name` *)
ctx_has(ctx, name) == \E i \in 1 .. Len(ctx) : ctx[i].ident = name
ctx_lookup(ctx, name) ==
    ctx[CHOOSE i \in 1 .. Len(ctx) :
            /\ ctx[i].ident = name
            /\ \A j \in (i + 1) .. Len(ctx) : ctx[j].ident # name].type

ctx_push(ctx, name, type) == Append(ctx, [ident |-> name, type |-> type])

RECURSIVE check(_, _)

(* expect without the `t != type_` test *)
expect_any(expr, type, ctx) ==
    IF check(expr, ctx) = TypeError THEN TypeError ELSE type

expect(expr, type, ctx) ==
    LET t == check(expr, ctx)
    IN  IF t = TypeError THEN TypeError
        ELSE IF t # type THEN TypeError
        ELSE type

check_fun(fun, ctx) ==
    LET arg_type == fun.arg_type
        ret_type == fun.fun_type
        result == maps_to(arg_type, ret_type)
        inner == ctx_push(ctx_push(ctx, fun.arg_name, arg_type), fun.name, result)
    IN  IF expect(fun.body, ret_type, inner) = TypeError THEN TypeError ELSE result

check(expr, ctx) ==
    CASE expr.kind = "Var" ->
            IF ctx_has(ctx, expr.ident) THEN ctx_lookup(ctx, expr.ident) ELSE TypeError
      [] expr.kind = "Number" -> Type_Int
      [] expr.kind = "Bool" -> Type_Bool
      [] expr.kind = "ArithBinOp" ->
            IF expect(expr.lhs, Type_Int, ctx) = TypeError THEN TypeError
            ELSE IF expect(expr.rhs, Type_Int, ctx) = TypeError THEN TypeError
            ELSE Type_Int
      [] expr.kind = "CmpBinOp" ->
            IF expect(expr.lhs, Type_Int, ctx) = TypeError THEN TypeError
            ELSE IF expect(expr.rhs, Type_Int, ctx) = TypeError THEN TypeError
            ELSE Type_Bool
      [] expr.kind = "If" ->
            IF expect(expr.cond, Type_Bool, ctx) = TypeError THEN TypeError
            ELSE IF check(expr.tru, ctx) = TypeError THEN TypeError
            ELSE IF check(expr.fls, ctx) = TypeError THEN TypeError
            ELSE IF check(expr.tru, ctx) # check(expr.fls, ctx) THEN TypeError
            ELSE check(expr.tru, ctx)
      [] expr.kind = "Fun" -> check_fun(expr, ctx)
      [] expr.kind = "LetFun" ->
            LET fun_type == check_fun(expr.fun, ctx)
            IN  IF fun_type = TypeError THEN TypeError
                ELSE check(expr.body, ctx_push(ctx, expr.fun.name, fun_type))
      [] expr.kind = "Apply" ->
            LET f == check(expr.fun, ctx)
            IN  IF f = TypeError THEN TypeError
                ELSE IF f.t # "Arrow" THEN TypeError
                ELSE IF expect(expr.arg, f.arg, ctx) = TypeError THEN TypeError
                ELSE f.ret

typecheck(expr) == check(expr, <<>>)

(* typecheck has not been called *)
NotTyped == [t |-> "NotTyped"]

----------------------------------------------------------------------------
(* The compiler: src/src/compile.rs.  name_table is the sequence of the    *)
(* identifiers seen so far; the Name of an identifier is its position,     *)
(* counted from 0.  A compilation yields [frame, names].                   *)

name_id(name_table, name) == (CHOOSE i \in 1 .. Len(name_table) : name_table[i] = name) - 1

get_name(name_table, name) ==
    IF \E i \in 1 .. Len(name_table) : name_table[i] = name
    THEN [id |-> name_id(name_table, name), names |-> name_table]
    ELSE [id |-> Len(name_table), names |-> Append(name_table, name)]

(* CompileInstruction for ArithOp and CmpOp *)
compile_arith_op(op) == Arith(op)
compile_cmp_op(op) == Cmp(op)

RECURSIVE compile_expr(_, _)

(* BinOp::compile with the code of the right operand first *)
compile_binop_rhs_first(inst, expr, names) ==
    LET l == compile_expr(expr.lhs, names)
        r == compile_expr(expr.rhs, l.names)
    IN  [frame |-> Append(r.frame \o l.frame, inst), names |-> r.names]

compile_binop(inst, expr, names) ==
    LET l == compile_expr(expr.lhs, names)
        r == compile_expr(expr.rhs, l.names)
    IN  [frame |-> Append(l.frame \o r.frame, inst), names |-> r.names]

(* If::compile with a PopEnv at the end of the `then` frame *)
compile_if_popping(expr, names) ==
    LET c == compile_expr(expr.cond, names)
        t == compile_expr(expr.tru, c.names)
        f == compile_expr(expr.fls, t.names)
    IN  [frame |-> Append(c.frame, Branch(Append(t.frame, PopEnv), f.frame)), names |-> f.names]

compile_if(expr, names) ==
    LET c == compile_expr(expr.cond, names)
        t == compile_expr(expr.tru, c.names)
        f == compile_expr(expr.fls, t.names)
    IN  [frame |-> Append(c.frame, Branch(t.frame, f.frame)), names |-> f.names]

(* Fun::compile without `frame.push(Instruction::PopEnv)` *)
compile_fun_no_pop(expr, names) ==
    LET b == compile_expr(expr.body, names)
        n == get_name(b.names, expr.name)
        a == get_name(n.names, expr.arg_name)
    IN  [frame |-> <<Closure(n.id, a.id, b.frame)>>, names |-> a.names]

compile_fun(expr, names) ==
    LET b == compile_expr(expr.body, names)
        n == get_name(b.names, expr.name)
        a == get_name(n.names, expr.arg_name)
    IN  [frame |-> <<Closure(n.id, a.id, Append(b.frame, PopEnv))>>, names |-> a.names]

(* Apply::compile without `result.push(Instruction::Call)` *)
compile_apply_no_call(expr, names) ==
    LET f == compile_expr(expr.fun, names)
        a == compile_expr(expr.arg, f.names)
    IN  [frame |-> f.frame \o a.frame, names |-> a.names]

compile_apply(expr, names) ==
    LET f == compile_expr(expr.fun, names)
        a == compile_expr(expr.arg, f.names)
    IN  [frame |-> Append(f.frame \o a.frame, Call), names |-> a.names]

compile_expr(expr, names) ==
    CASE expr.kind = "Var" ->
            [frame |-> <<Var(get_name(names, expr.ident).id)>>,
             names |-> get_name(names, expr.ident).names]
      [] expr.kind = "Number" -> [frame |-> <<PushInt(expr.i)>>, names |-> names]
      [] expr.kind = "Bool" -> [frame |-> <<PushBool(expr.b)>>, names |-> names]
      [] expr.kind = "ArithBinOp" -> compile_binop(compile_arith_op(expr.op), expr, names)
      [] expr.kind = "CmpBinOp" -> compile_binop(compile_cmp_op(expr.op), expr, names)
      [] expr.kind = "If" -> compile_if(expr, names)
      [] expr.kind = "Fun" -> compile_fun(expr, names)
      [] expr.kind = "Apply" -> compile_apply(expr, names)

compile(expr) == compile_expr(expr, <<>>).frame

----------------------------------------------------------------------------
(* Source expressions *)

Idents == {"f", "x"}
Literals == {Expr_Number(0), Expr_Number(2), Expr_Bool(TRUE)}
Leaves == Literals \cup {Expr_Var(i) : i \in Idents}
Types == {Type_Int, Type_Bool, Type_Arrow(Type_Int, Type_Int)}

Bodies ==
    Leaves
    \cup {Expr_Apply(Expr_Var(i), l) : i \in Idents, l \in Leaves}
    \cup {Expr_Arith(op, l, r) : op \in {"Sub", "Div"}, l \in Leaves, r \in Leaves}
    \cup {Expr_Cmp("Lt", l, r) : l \in Leaves, r \in Leaves}
    \cup {Expr_If(c, t, e) :
            c \in {Expr_Var("x"), Expr_Bool(TRUE), Expr_Cmp("Lt", Expr_Var("x"), Expr_Number(2))},
            t \in Leaves, e \in Leaves}

Funs ==
    {Expr_Fun(n, a, at, rt, b) : n \in Idents, a \in Idents, at \in Types, rt \in Types,
                                 b \in Bodies}

IdentityFun == Expr_Fun("g", "y", Type_Int, Type_Int, Expr_Var("y"))

(* fun f(x: int): int is if x < 2 then x else f (x - 2) *)
CountDownFun ==
    Expr_Fun("f", "x", Type_Int, Type_Int,
             Expr_If(Expr_Cmp("Lt", Expr_Var("x"), Expr_Number(2)),
                     Expr_Var("x"),
                     Expr_Apply(Expr_Var("f"), Expr_Arith("Sub", Expr_Var("x"), Expr_Number(2)))))

Closed ==
    Bodies \cup Funs
    \cup {Expr_Apply(fn, a) : fn \in Funs \cup {CountDownFun}, a \in Literals \cup {IdentityFun}}

WellTyped == {e \in Closed : typecheck(e) # TypeError}

(* Expressions the type checker rejects, compiled all the same *)
IllTyped ==
    {Expr_Arith("Add", Expr_Number(2), Expr_Bool(TRUE)),
     Expr_Apply(Expr_Number(2), Expr_Number(0)),
     Expr_Fun("f", "x", Type_Int, Type_Int, Expr_Var("y")),
     Expr_Apply(Expr_Fun("f", "x", Type_Int, Type_Int, Expr_Var("y")), Expr_Number(0)),
     Expr_If(Expr_Number(0), Expr_Number(2), Expr_Bool(TRUE))}

(* fun f(x: int): int -> int is fun g(y: int): int is y *)
MakeIdentityFun ==
    Expr_Fun("f", "x", Type_Int, Type_Arrow(Type_Int, Type_Int), IdentityFun)

(* Expressions whose operands, function and argument are calls:              *)
(* g 2 - g 0, g 2 / g 0, g (g 2) and (f 0) (g 2)                             *)
NestedCalls ==
    {Expr_Arith(op, Expr_Apply(IdentityFun, Expr_Number(2)),
                    Expr_Apply(IdentityFun, Expr_Number(0))) : op \in {"Sub", "Div"}}
    \cup {Expr_Apply(IdentityFun, Expr_Apply(IdentityFun, Expr_Number(2))),
          Expr_Apply(Expr_Apply(MakeIdentityFun, Expr_Number(0)),
                     Expr_Apply(IdentityFun, Expr_Number(2)))}

SourceExprs == WellTyped \cup IllTyped \cup NestedCalls

----------------------------------------------------------------------------
(* The desugarer: src/src/ir.rs.  Renamer.names is the set of its entries    *)
(* [name, id]; a method that mutates the renamer returns it next to its      *)
(* result.                                                                   *)

ANON_SELF == 1
DISPATCH_FUN == 3
DISPATCH_ARG == 5

Renamer_empty == {}

contains_key(names, name) == \E e \in names : e.name = name
names_get(names, name) == (CHOOSE e \in names : e.name = name).id

(* lookup with `new_id = self.names.len() + 1`: the first identifier gets 2 *)
Renamer_lookup_from_one(names, name) ==
    LET inserted == IF contains_key(names, name) THEN names
                    ELSE names \cup {[name |-> name, id |-> Cardinality(names) + 1]}
    IN  [id |-> names_get(inserted, name) * 2, renamer |-> inserted]

(* lookup without the `* 2`: the dense ids of a plain name table *)
Renamer_lookup_dense(names, name) ==
    LET inserted == IF contains_key(names, name) THEN names
                    ELSE names \cup {[name |-> name, id |-> Cardinality(names)]}
    IN  [id |-> names_get(inserted, name), renamer |-> inserted]

(* Renamer::lookup *)
Renamer_lookup(names, name) ==
    LET inserted == IF contains_key(names, name) THEN names
                    ELSE names \cup {[name |-> name, id |-> Cardinality(names)]}
    IN  [id |-> names_get(inserted, name) * 2, renamer |-> inserted]

(* ast/src/exprs.rs: the binding forms of the surface language *)
Expr_LetFun(fun, body) == [kind |-> "LetFun", fun |-> fun, body |-> body]
Expr_LetRec(funs, body) == [kind |-> "LetRec", funs |-> funs, body |-> body]

(* enum Ir *)
Ir_Var(name) == [kind |-> "Var", name |-> name]
Ir_IntLiteral(i) == [kind |-> "IntLiteral", i |-> i]
Ir_BoolLiteral(b) == [kind |-> "BoolLiteral", b |-> b]
Ir_BinOp(kind, lhs, rhs) == [kind |-> "BinOp", op |-> kind, lhs |-> lhs, rhs |-> rhs]
Ir_If(cond, tru, fls) == [kind |-> "If", cond |-> cond, tru |-> tru, fls |-> fls]
Ir_Fun(fun_name, arg_name, body) ==
    [kind |-> "Fun", fun_name |-> fun_name, arg_name |-> arg_name, body |-> body]
Ir_Apply(fun, arg) == [kind |-> "Apply", fun |-> fun, arg |-> arg]

(* Ir::apply *)
apply(self, arg) == Ir_Apply(self, arg)

(* undefined(): 0 / 0 *)
undefined == Ir_BinOp("Div", Ir_IntLiteral(0), Ir_IntLiteral(0))

if_eq(lhs, rhs, tru, fls) == Ir_If(Ir_BinOp("Eq", lhs, rhs), tru, fls)

let_(fun, body) == Ir_Apply(Ir_Fun(ANON_SELF, fun.fun_name, body), fun)

RECURSIVE lets(_, _)
lets(bindings, body) ==
    IF bindings = <<>> THEN body
    ELSE lets(Front(bindings), let_(Last(bindings), body))

(* A sibling binding that always dispatches to the first function of the group *)
sibling_binding_first(name, fun_tag) ==
    Ir_Fun(name, ANON_SELF,
           apply(apply(Ir_Var(DISPATCH_FUN), Ir_IntLiteral(0)), Ir_Var(ANON_SELF)))

(* The binding fun_wrapper pushes for the sibling with tag fun_tag *)
sibling_binding(name, fun_tag) ==
    Ir_Fun(name, ANON_SELF,
           apply(apply(Ir_Var(DISPATCH_FUN), Ir_IntLiteral(fun_tag)), Ir_Var(ANON_SELF)))

(* fun_wrapper without the `continue` for the function's own tag *)
fun_wrapper_binding_self(my_tag, fun, fun_names) ==
    LET bindins == [k \in 1 .. Len(fun_names) |-> sibling_binding(fun_names[k], k - 1)]
    IN  Ir_Fun(fun.fun_name, fun.arg_name, lets(bindins, fun.body))

fun_wrapper(my_tag, fun, fun_names) ==
    LET others == SelectSeq([i \in 1 .. Len(fun_names) |-> i - 1], LAMBDA t : t # my_tag)
        bindins == [k \in 1 .. Len(others) |->
                        sibling_binding(fun_names[others[k] + 1], others[k])]
    IN  Ir_Fun(fun.fun_name, fun.arg_name, lets(bindins, fun.body))

RECURSIVE dispatch_if_off_by_one(_, _, _)
(* The dispatch chain with the k-th function under tag k instead of k - 1 *)
dispatch_if_off_by_one(funs, fun_names, k) ==
    IF k = 0 THEN undefined
    ELSE if_eq(Ir_Var(DISPATCH_ARG), Ir_IntLiteral(k),
               fun_wrapper(k - 1, funs[k], fun_names),
               dispatch_if_off_by_one(funs, fun_names, k - 1))

RECURSIVE dispatch_if_ascending(_, _, _)
(* The dispatch chain with the first function's test outermost *)
dispatch_if_ascending(funs, fun_names, k) ==
    IF k = 0 THEN undefined
    ELSE if_eq(Ir_Var(DISPATCH_ARG), Ir_IntLiteral(Len(funs) - k),
               fun_wrapper(Len(funs) - k, funs[Len(funs) - k + 1], fun_names),
               dispatch_if_ascending(funs, fun_names, k - 1))

RECURSIVE dispatch_if(_, _, _)
(* The value of `result` after the first k iterations of the loop over funs *)
dispatch_if(funs, fun_names, k) ==
    IF k = 0 THEN undefined
    ELSE if_eq(Ir_Var(DISPATCH_ARG), Ir_IntLiteral(k - 1),
               fun_wrapper(k - 1, funs[k], fun_names),
               dispatch_if(funs, fun_names, k - 1))

RECURSIVE bind_all_from_one(_, _, _)
(* The bindings of the group's names with tags counted from 1 *)
bind_all_from_one(fun_names, body, k) ==
    IF k = 0 THEN body
    ELSE apply(Ir_Fun(ANON_SELF, fun_names[k], bind_all_from_one(fun_names, body, k - 1)),
               apply(Ir_Var(DISPATCH_FUN), Ir_IntLiteral(k)))

RECURSIVE bind_all(_, _, _)
(* The value of `result` after the first k iterations of the loop over fun_names *)
bind_all(fun_names, body, k) ==
    IF k = 0 THEN body
    ELSE apply(Ir_Fun(ANON_SELF, fun_names[k], bind_all(fun_names, body, k - 1)),
               apply(Ir_Var(DISPATCH_FUN), Ir_IntLiteral(k - 1)))

RECURSIVE desugar_expr(_, _)

desugar_fun(fun, r) ==
    LET f == Renamer_lookup(r, fun.name)
        a == Renamer_lookup(f.renamer, fun.arg_name)
        b == desugar_expr(fun.body, a.renamer)
    IN  [ir |-> Ir_Fun(f.id, a.id, b.ir), renamer |-> b.renamer]

RECURSIVE desugar_funs(_, _, _)
(* self.funs.iter().map(|fun| desugar_fun(fun, renamer)): the first k of them *)
desugar_funs(funs, k, r) ==
    IF k = 0 THEN [irs |-> <<>>, renamer |-> r]
    ELSE LET before == desugar_funs(funs, k - 1, r)
             this == desugar_fun(funs[k], before.renamer)
         IN  [irs |-> Append(before.irs, this.ir), renamer |-> this.renamer]

(* LetFun::desugar with the let-bound name in place of the anonymous self name *)
desugar_let_fun_self_named(e, r) ==
    LET fun == desugar_fun(e.fun, r)
        expr == desugar_expr(e.body, fun.renamer)
        a == Renamer_lookup(expr.renamer, e.fun.name)
    IN  [ir |-> Ir_Apply(Ir_Fun(a.id, a.id, expr.ir), fun.ir), renamer |-> a.renamer]

desugar_let_fun(e, r) ==
    LET fun == desugar_fun(e.fun, r)
        expr == desugar_expr(e.body, fun.renamer)
        a == Renamer_lookup(expr.renamer, e.fun.name)
    IN  [ir |-> Ir_Apply(Ir_Fun(ANON_SELF, a.id, expr.ir), fun.ir), renamer |-> a.renamer]

desugar_let_rec(e, r) ==
    LET fs == desugar_funs(e.funs, Len(e.funs), r)
        funs == fs.irs
        fun_names == [k \in 1 .. Len(funs) |-> funs[k].fun_name]
        dispatch_fun == Ir_Fun(DISPATCH_FUN, DISPATCH_ARG,
                               dispatch_if(funs, fun_names, Len(funs)))
        body == desugar_expr(e.body, fs.renamer)
        f == Ir_Fun(ANON_SELF, DISPATCH_FUN, bind_all(fun_names, body.ir, Len(fun_names)))
    IN  [ir |-> apply(f, dispatch_fun), renamer |-> body.renamer]

desugar_binop(e, r) ==
    LET l == desugar_expr(e.lhs, r)
        rr == desugar_expr(e.rhs, l.renamer)
    IN  [ir |-> Ir_BinOp(e.op, l.ir, rr.ir), renamer |-> rr.renamer]

desugar_if(e, r) ==
    LET c == desugar_expr(e.cond, r)
        t == desugar_expr(e.tru, c.renamer)
        f == desugar_expr(e.fls, t.renamer)
    IN  [ir |-> Ir_If(c.ir, t.ir, f.ir), renamer |-> f.renamer]

desugar_apply(e, r) ==
    LET f == desugar_expr(e.fun, r)
        a == desugar_expr(e.arg, f.renamer)
    IN  [ir |-> Ir_Apply(f.ir, a.ir), renamer |-> a.renamer]

(* impl Sugar for Expr *)
desugar_expr(expr, r) ==
    CASE expr.kind = "Var" ->
            [ir |-> Ir_Var(Renamer_lookup(r, expr.ident).id),
             renamer |-> Renamer_lookup(r, expr.ident).renamer]
      [] expr.kind = "Number" -> [ir |-> Ir_IntLiteral(expr.i), renamer |-> r]
      [] expr.kind = "Bool" -> [ir |-> Ir_BoolLiteral(expr.b), renamer |-> r]
      [] expr.kind \in {"ArithBinOp", "CmpBinOp"} -> desugar_binop(expr, r)
      [] expr.kind = "If" -> desugar_if(expr, r)
      [] expr.kind = "Fun" -> desugar_fun(expr, r)
      [] expr.kind = "LetFun" -> desugar_let_fun(expr, r)
      [] expr.kind = "LetRec" -> desugar_let_rec(expr, r)
      [] expr.kind = "Apply" -> desugar_apply(expr, r)

desugar(expr) == desugar_expr(expr, Renamer_empty).ir

RECURSIVE compile_ir(_)
(* The compiler from IR to frames (its code is not part of src/; this follows *)
(* the table of the specification's section on the compiler)                 *)
compile_ir(ir) ==
    CASE ir.kind = "IntLiteral" -> <<PushInt(ir.i)>>
      [] ir.kind = "BoolLiteral" -> <<PushBool(ir.b)>>
      [] ir.kind = "Var" -> <<Var(ir.name)>>
      [] ir.kind = "BinOp" ->
            Append(compile_ir(ir.lhs) \o compile_ir(ir.rhs),
                   IF ir.op \in ArithKinds THEN Arith(ir.op) ELSE Cmp(ir.op))
      [] ir.kind = "If" ->
            Append(compile_ir(ir.cond), Branch(compile_ir(ir.tru), compile_ir(ir.fls)))
      [] ir.kind = "Fun" ->
            <<Closure(ir.fun_name, ir.arg_name, Append(compile_ir(ir.body), PopEnv))>>
      [] ir.kind = "Apply" -> Append(compile_ir(ir.fun) \o compile_ir(ir.arg), Call)

(* Surface programs with binding forms *)
Num(i) == Expr_Number(i)
Id(name) == Expr_Var(name)
App(fun, arg) == Expr_Apply(fun, arg)
Fn(name, arg_name, body) == Expr_Fun(name, arg_name, Type_Int, Type_Int, body)

(* if x == 0 then 0 else f (x - 1) *)
CountDownBody ==
    Expr_If(Expr_Cmp("Eq", Id("x"), Num(0)), Num(0),
            App(Id("f"), Expr_Arith("Sub", Id("x"), Num(1))))

(* if x == 0 then 1 else x * f (x - 1) *)
FactorialBody ==
    Expr_If(Expr_Cmp("Eq", Id("x"), Num(0)), Num(1),
            Expr_Arith("Mul", Id("x"), App(Id("f"), Expr_Arith("Sub", Id("x"), Num(1)))))

(* Bodies x op c of a function of x *)
ArithBodies ==
    {Expr_Arith(op, Id("x"), Num(c)) : op \in {"Add", "Sub", "Mul"}, c \in {1, 2}}

FunBodies ==
    ArithBodies
    \cup {Id("x"), Expr_Arith("Div", Num(2), Id("x")), Expr_Cmp("Lt", Id("x"), Num(2)),
          CountDownBody, FactorialBody, App(Id("f"), Id("x")), Id("f")}

Args == 0 .. MaxArg

(* What follows `in`: calls of f, f itself, or an expression without f *)
InBodies ==
    {App(Id("f"), Num(n)) : n \in Args}
    \cup {App(Id("f"), App(Id("f"), Num(n))) : n \in Args}
    \cup {Id("f"), Num(2), App(Id("f"), Expr_Bool(TRUE))}

LetFunOf(e1, e2) == Expr_LetFun(Fn("f", "x", e1), e2)
LetRecOf(e1, e2) == Expr_LetRec(<<Fn("f", "x", e1)>>, e2)

(* tests::let_shadowing with bodies o (outer) and i (inner), applied to n *)
ShadowOf(o, i, n) == LetFunOf(o, LetFunOf(i, App(Id("f"), Num(n))))

(* tests::let_rec: odd and even *)
OddFun ==
    Fn("odd", "n", Expr_If(Expr_Cmp("Eq", Id("n"), Num(0)), Expr_Bool(FALSE),
                           App(Id("even"), Expr_Arith("Sub", Id("n"), Num(1)))))
EvenFun ==
    Fn("even", "n", Expr_If(Expr_Cmp("Eq", Id("n"), Num(0)), Expr_Bool(TRUE),
                            App(Id("odd"), Expr_Arith("Sub", Id("n"), Num(1)))))
OddEvenOf(called, n) == Expr_LetRec(<<OddFun, EvenFun>>, App(Id(called), Num(n)))

(* tests::let_rec_different_types: div_by_3 and mod_3 *)
DivBy3Fun ==
    Fn("div_by_3", "n",
       Expr_If(Expr_Cmp("Eq", Id("n"), Num(0)), Expr_Bool(TRUE),
               Expr_Cmp("Eq", App(Id("mod_3"), Expr_Arith("Sub", Id("n"), Num(1))), Num(2))))
Mod3Fun ==
    Fn("mod_3", "n",
       Expr_If(App(Id("div_by_3"), Id("n")), Num(0),
               Expr_If(App(Id("div_by_3"), Expr_Arith("Sub", Id("n"), Num(1))),
                       Num(1), Num(2))))
Mod3Of(n) == Expr_LetRec(<<DivBy3Fun, Mod3Fun>>, App(Id("mod_3"), Num(n)))

(* A group of three: a returns 1, b returns 2, c returns 3 * b 0 *)
ThreeFuns ==
    <<Fn("a", "b", Num(1)), Fn("b", "c", Num(2)),
      Fn("c", "a", Expr_Arith("Mul", Num(3), App(Id("b"), Num(0))))>>
ThreeOf(called) == Expr_LetRec(ThreeFuns, App(Id(called), Num(0)))

(* A group in which the parameter of f is named as the sibling g:            *)
(* let rec fun f(g) is g + 1 and fun g(x) is f x in f n                      *)
ParamNamedAsSibling(n) ==
    Expr_LetRec(<<Fn("f", "g", Expr_Arith("Add", Id("g"), Num(1))),
                  Fn("g", "x", App(Id("f"), Id("x")))>>,
                App(Id("f"), Num(n)))

(* The same group with the parameter of f named x *)
ParamRenamed(n) ==
    Expr_LetRec(<<Fn("f", "x", Expr_Arith("Add", Id("x"), Num(1))),
                  Fn("g", "x", App(Id("f"), Id("x")))>>,
                App(Id("f"), Num(n)))

SugaredExprs ==
    {LetFunOf(e1, e2) : e1 \in FunBodies, e2 \in InBodies}
    \cup {LetRecOf(e1, e2) : e1 \in FunBodies, e2 \in InBodies}
    \cup {ShadowOf(o, i, n) : o \in ArithBodies, i \in ArithBodies, n \in Args}
    \cup {OddEvenOf(called, n) : called \in {"odd", "even"}, n \in Args}
    \cup {Mod3Of(n) : n \in Args}
    \cup {ThreeOf(called) : called \in {"a", "b", "c"}}
    \cup {ParamNamedAsSibling(n) : n \in Args}
    \cup {ParamRenamed(n) : n \in Args}

(* `let rec fun f ... in body` with one function, written as `let fun f ... in body` *)
Twin(e) ==
    IF e.kind = "LetRec" /\ Len(e.funs) = 1 THEN Expr_LetFun(e.funs[1], e.body) ELSE e

----------------------------------------------------------------------------
(* The hand-written parser, syntax_ll/src/parser.rs, on the token level: the *)
(* input is the sequence of tokens the Tokenizer yields and a Tokenizer is   *)
(* its position in that sequence.  No input holds the keyword `fun`:         *)
(* parse_fun and parse_type are not part of the model.                       *)

Token_Eof == [t |-> "Eof"]
Token_Unknown == [t |-> "Unknown"]
Token_Number(n) == [t |-> "Number", n |-> n]
Token_Bool(b) == [t |-> "Bool", b |-> b]
Token_Ident(i) == [t |-> "Ident", i |-> i]
Token_Paren(paren) == [t |-> "Paren", paren |-> paren]
Token_Sym(sym) == [t |-> "Sym", sym |-> sym]
Token_Keyword(keyword) == [t |-> "Keyword", keyword |-> keyword]

CmpSyms == {"Eq", "Lt", "Gt"}
ArithSyms == {"Add", "Sub", "Mul", "Div"}

(* Parser::precedence *)
precedence(sym) ==
    CASE sym \in CmpSyms -> 3
      [] sym \in {"Add", "Sub"} -> 2
      [] sym \in {"Mul", "Div"} -> 1
      [] OTHER -> 255

max_precedence == 255

(* Tokenizer::lookahead and Tokenizer::eat_token: the token at the position, *)
(* Eof past the end, and the position after eating it                        *)
lookahead(tokens, pos) == IF pos > Len(tokens) THEN Token_Eof ELSE tokens[pos]
eat_token(tokens, pos) == IF pos > Len(tokens) THEN pos ELSE pos + 1

(* Result<Expr, ParseError> and Result<Option<Expr>, ParseError>, with the *)
(* position the tokenizer is left at                                       *)
ParseOk(expr, pos) == [ok |-> TRUE, some |-> TRUE, expr |-> expr, pos |-> pos]
ParseNone(pos) == [ok |-> TRUE, some |-> FALSE, pos |-> pos]
ParseErr(msg, pos) == [ok |-> FALSE, msg |-> msg, pos |-> pos]

ChainedComparisons == "Chained comparisons are not allowed"

(* Parser::expect *)
Parser_expect(tokens, pos, t, msg) ==
    IF lookahead(tokens, pos) = t THEN ParseNone(eat_token(tokens, pos))
    ELSE ParseErr(msg, eat_token(tokens, pos))

(* Parser::eat_op_with_precendence *)
eat_op_with_precendence(tokens, pos, prec) ==
    IF lookahead(tokens, pos).t = "Sym" /\ precedence(lookahead(tokens, pos).sym) < prec
    THEN [some |-> TRUE, sym |-> lookahead(tokens, pos).sym, pos |-> eat_token(tokens, pos)]
    ELSE [some |-> FALSE, pos |-> pos]

RECURSIVE parse_expr(_, _, _)
RECURSIVE parse_expr_loop(_, _, _, _, _)
RECURSIVE parse_expr_loop_unchecked(_, _, _, _, _)
RECURSIVE parse_application(_, _)
RECURSIVE parse_application_loop(_, _, _)
RECURSIVE parse_atom(_, _)
RECURSIVE parse_if(_, _)

(* Parser::parse *)
parse_at(tokens, pos) == parse_expr(tokens, pos, max_precedence)

(* Parser::parse_if *)
parse_if(tokens, pos) ==
    LET cond == parse_at(tokens, pos)
        then_ == Parser_expect(tokens, cond.pos, Token_Keyword("Then"), "Expected 'then'")
        tru == parse_at(tokens, then_.pos)
        else_ == Parser_expect(tokens, tru.pos, Token_Keyword("Else"), "Expected 'else'")
        fls == parse_at(tokens, else_.pos)
    IN  IF ~cond.ok THEN cond
        ELSE IF ~then_.ok THEN then_
        ELSE IF ~tru.ok THEN tru
        ELSE IF ~else_.ok THEN else_
        ELSE IF ~fls.ok THEN fls
        ELSE ParseOk(Expr_If(cond.expr, tru.expr, fls.expr), fls.pos)

(* Parser::parse_atom *)
parse_atom(tokens, pos) ==
    LET token == lookahead(tokens, pos)
        after == eat_token(tokens, pos)
    IN  CASE token = Token_Eof \/ token = Token_Paren("Close") \/ token.t = "Sym" ->
                ParseNone(pos)
          [] token.t = "Number" -> ParseOk(Expr_Number(token.n), after)
          [] token.t = "Bool" -> ParseOk(Expr_Bool(token.b), after)
          [] token.t = "Ident" -> ParseOk(Expr_Var(token.i), after)
          [] token = Token_Paren("Open") ->
                LET expr == parse_at(tokens, after)
                    close == Parser_expect(tokens, expr.pos, Token_Paren("Close"), "Expected ')'")
                IN  IF ~expr.ok THEN expr
                    ELSE IF ~close.ok THEN close
                    ELSE ParseOk(expr.expr, close.pos)
          [] token = Token_Keyword("If") -> parse_if(tokens, after)
          [] token.t = "Keyword" /\ token.keyword \notin {"If", "Fun"} -> ParseNone(pos)
          [] token = Token_Unknown -> ParseErr("Unknown token", pos)

(* The `while let Some(arg)` loop of parse_application *)
parse_application_loop(tokens, pos, fun) ==
    LET arg == parse_atom(tokens, pos)
    IN  IF ~arg.ok THEN arg
        ELSE IF ~arg.some THEN ParseOk(fun, arg.pos)
        ELSE parse_application_loop(tokens, arg.pos, Expr_Apply(fun, arg.expr))

(* Parser::parse_application *)
parse_application(tokens, pos) ==
    LET fun == parse_atom(tokens, pos)
    IN  IF ~fun.ok THEN fun
        ELSE IF ~fun.some THEN ParseErr("Expected expression", fun.pos)
        ELSE parse_application_loop(tokens, fun.pos, fun.expr)

(* The loop of parse_expr without the `if has_comarison` test *)
parse_expr_loop_unchecked(tokens, pos, prec, lhs, has_comarison) ==
    LET op == eat_op_with_precendence(tokens, pos, prec)
        rhs == parse_expr(tokens, op.pos, precedence(op.sym))
    IN  IF ~op.some THEN ParseOk(lhs, pos)
        ELSE IF ~rhs.ok THEN rhs
        ELSE IF op.sym \in CmpSyms
        THEN parse_expr_loop_unchecked(tokens, rhs.pos, prec,
                                       Expr_Cmp(op.sym, lhs, rhs.expr), TRUE)
        ELSE parse_expr_loop_unchecked(tokens, rhs.pos, prec,
                                       Expr_Arith(op.sym, lhs, rhs.expr), has_comarison)

(* The `while let Some(sym)` loop of parse_expr *)
parse_expr_loop(tokens, pos, prec, lhs, has_comarison) ==
    LET op == eat_op_with_precendence(tokens, pos, prec)
        rhs == parse_expr(tokens, op.pos, precedence(op.sym))
    IN  IF ~op.some THEN ParseOk(lhs, pos)
        ELSE IF ~rhs.ok THEN rhs
        ELSE IF op.sym \in CmpSyms
        THEN IF has_comarison THEN ParseErr(ChainedComparisons, rhs.pos)
             ELSE parse_expr_loop(tokens, rhs.pos, prec, Expr_Cmp(op.sym, lhs, rhs.expr), TRUE)
        ELSE parse_expr_loop(tokens, rhs.pos, prec,
                             Expr_Arith(op.sym, lhs, rhs.expr), has_comarison)

(* Parser::parse_expr *)
parse_expr(tokens, pos, prec) ==
    LET lhs == parse_application(tokens, pos)
    IN  IF ~lhs.ok THEN lhs
        ELSE parse_expr_loop(tokens, lhs.pos, prec, lhs.expr, FALSE)

(* parser::parse *)
parse(tokens) == parse_at(tokens, 1)

(* No parse result yet *)
NotParsed == [ok |-> FALSE, msg |-> "not parsed", pos |-> 0]

(* Inputs: up to MaxOperands numbers 1, 2, ... with an operator between each *)
(* two, one run of operands from..to in parentheses (from = 0: none)         *)
ParserOps == {"Eq", "Lt", "Gt", "Add", "Mul"}
OpSeqs == UNION {[1 .. n -> ParserOps] : n \in 0 .. MaxOperands - 1}
Spans(k) == {<<0, 0>>} \cup {<<i, j>> \in (1 .. k) \X (1 .. k) : i <= j}

RECURSIVE Render(_, _, _, _)
(* The tokens of operands n, n + 1, ... and the operators between them *)
Render(ops, from, to, n) ==
    LET operand == (IF n = from THEN <<Token_Paren("Open")>> ELSE <<>>)
                   \o <<Token_Number(n)>>
                   \o (IF n = to THEN <<Token_Paren("Close")>> ELSE <<>>)
    IN  IF n = Len(ops) + 1 THEN operand
        ELSE operand \o <<Token_Sym(ops[n])>> \o Render(ops, from, to, n + 1)

ParserInputs ==
    UNION {{Render(ops, span[1], span[2], 1) : span \in Spans(Len(ops) + 1)} : ops \in OpSeqs}

----------------------------------------------------------------------------
(* The state machine *)

Me == [storage |-> storage, values |-> values, environments |-> environments,
       activations |-> activations]
Here == [m |-> Me, step |-> step, outcome |-> outcome]

Install(run) ==
    /\ storage' = run.m.storage
    /\ values' = run.m.values
    /\ environments' = run.m.environments
    /\ activations' = run.m.activations
    /\ step' = run.step
    /\ outcome' = run.outcome

(* The reference machine takes the same loop iteration, without gc() *)
RefNext ==
    IF ref.outcome # Running THEN ref
    ELSE IF fetch_instruction(ref.m).some
    THEN exec_step(ref, FALSE, gc_every, overflow_checks, "ascending")
    ELSE exec_finish(ref)

(* The expressions of the tests of typecheck.rs *)
IdFun(body) == Expr_Fun("id", "x", Type_Int, Type_Int, body)
IncFun ==
    [kind |-> "Fun", name |-> "inc", arg_name |-> "x", arg_type |-> Type_Int,
     fun_type |-> Type_Int, body |-> Expr_Arith("Add", Expr_Var("x"), Expr_Number(1))]
TypecheckValid ==
    {Expr_Number(92), Expr_Bool(TRUE),
     Expr_Arith("Add", Expr_Number(1), Expr_Number(1)),
     Expr_Cmp("Lt", Expr_Number(1), Expr_Number(1)),
     Expr_If(Expr_Cmp("Lt", Expr_Number(1), Expr_Number(2)), Expr_Number(92), Expr_Number(62)),
     Expr_If(Expr_Bool(TRUE), Expr_Bool(FALSE), Expr_Bool(TRUE)),
     IdFun(Expr_Var("x")),
     IdFun(Expr_Apply(Expr_Var("id"), Expr_Var("x"))),
     Expr_Apply(IdFun(Expr_Var("x")), Expr_Number(92)),
     [kind |-> "LetFun", fun |-> IncFun, body |-> Expr_Apply(Expr_Var("inc"), Expr_Number(92))]}
TypecheckFails ==
    {Expr_Arith("Mul", Expr_Number(1), Expr_Bool(TRUE)),
     Expr_Cmp("Eq", Expr_Bool(TRUE), Expr_Bool(TRUE)),
     Expr_Cmp("Gt", Expr_Bool(FALSE), Expr_Number(92)),
     Expr_If(Expr_Arith("Add", Expr_Number(1), Expr_Cmp("Eq", Expr_Number(1), Expr_Number(2))),
             Expr_Number(92), Expr_Number(62)),
     Expr_If(Expr_Number(1), Expr_Number(92), Expr_Number(62)),
     Expr_If(Expr_Bool(TRUE), Expr_Number(92), Expr_Bool(FALSE)),
     IdFun(Expr_Var("y")),
     Expr_Apply(IdFun(Expr_Var("x")), Expr_Bool(TRUE)),
     [kind |-> "LetFun", fun |-> IncFun, body |-> Expr_Apply(Expr_Var("inc"), Expr_Var("inc"))]}

(* The expressions handed to typecheck: those of the tests, and the closed   *)
(* and open expressions over Idents                                          *)
TypecheckInputs == TypecheckValid \cup TypecheckFails \cup Closed \cup IllTyped \cup NestedCalls

(* A machine on p next to a second one on q, and the tokens toks not yet parsed *)
InitAll(src, p, q, periods, toks) ==
    /\ source = src
    /\ program = p
    /\ storage = Machine_new(p).storage
    /\ values = Machine_new(p).values
    /\ environments = Machine_new(p).environments
    /\ activations = Machine_new(p).activations
    /\ step = 0
    /\ outcome = Running
    /\ gc_every \in periods
    /\ overflow_checks \in BOOLEAN
    /\ ref = [m |-> Machine_new(q), step |-> 0, outcome |-> Running]
    /\ last = [inst |-> NoInst, before |-> Machine_new(p), executed |-> Machine_new(p),
               err |-> NoError]
    /\ renamer = Renamer_empty
    /\ looked = <<>>
    /\ input = toks
    /\ parsed = NotParsed
    /\ typed = NotTyped

InitPair(src, p, q, periods) == InitAll(src, p, q, periods, <<>>)

InitWith(src, p, periods) == InitPair(src, p, p, periods)

(* The number of loop iterations the model follows a run for *)
StepLimit == IF source.kind \in {"LetFun", "LetRec"} THEN MaxIrSteps ELSE MaxSteps

(* One iteration of the loop of Machine::exec: fetch, exec, and gc when due *)
ExecStep ==
    /\ outcome = Running
    /\ step < StepLimit
    /\ fetch_instruction(Me).some
    /\ \E ord \in KeyOrders : Install(exec_step(Here, TRUE, gc_every, overflow_checks, ord))
    /\ ref' = RefNext
    /\ last' = [inst |-> fetch_instruction(Me).inst, before |-> Me,
                executed |-> exec_instruction(fetch_instruction(Me).inst,
                                              fetch_instruction(Me).m, overflow_checks).m,
                err |-> exec_instruction(fetch_instruction(Me).inst,
                                         fetch_instruction(Me).m, overflow_checks).err]
    /\ UNCHANGED <<source, program, gc_every, overflow_checks, renamer, looked, input, parsed, typed>>

(* The loop ends and exec returns *)
Finish ==
    /\ outcome = Running
    /\ ~fetch_instruction(Me).some
    /\ Install(exec_finish(Here))
    /\ ref' = RefNext
    /\ last' = [inst |-> NoInst, before |-> Me, executed |-> fetch_instruction(Me).m,
                err |-> NoError]
    /\ UNCHANGED <<source, program, gc_every, overflow_checks, renamer, looked, input, parsed, typed>>

Next == ExecStep \/ Finish

(* The collection period: 92 as written, and 1 .. MaxInterval *)
Periods == {GC_PERIOD} \cup 1 .. MaxInterval

(* Hand-written programs, and the programs compile emits for SourceExprs *)
Init ==
    \/ \E p \in SmallPrograms \cup TestPrograms : InitWith(NoExpr, p, Periods)
    \/ \E e \in SourceExprs : InitWith(e, compile(e), Periods)

Spec == Init /\ [][Next]_vars

(* The pipeline desugar, compile, exec on the programs of SugaredExprs *)
InitIr ==
    \E e \in SugaredExprs :
        InitPair(e, compile_ir(desugar(e)), compile_ir(desugar(Twin(e))), {GC_PERIOD})

SpecIr == InitIr /\ [][Next]_vars

----------------------------------------------------------------------------
(* One desugar run seen from its renamer: any sequence of lookups of surface *)
(* identifiers, the machine idle.                                            *)

SurfaceIdents == {"f", "x", "n", "odd", "even"}

Lookup ==
    /\ Len(looked) < MaxLookups
    /\ \E name \in SurfaceIdents :
          /\ renamer' = Renamer_lookup(renamer, name).renamer
          /\ looked' = Append(looked, [name |-> name, id |-> Renamer_lookup(renamer, name).id])
    /\ UNCHANGED <<source, program, storage, values, environments, activations, step,
                   outcome, gc_every, overflow_checks, ref, last, input, parsed, typed>>

NextRenamer == Lookup

InitRenamer == InitWith(NoExpr, <<>>, {GC_PERIOD})

SpecRenamer == InitRenamer /\ [][NextRenamer]_vars

----------------------------------------------------------------------------
(* One call of typecheck on an expression, the machine idle. *)

Typecheck ==
    /\ typed = NotTyped
    /\ typed' = typecheck(source)
    /\ UNCHANGED <<source, program, storage, values, environments, activations, step,
                   outcome, gc_every, overflow_checks, ref, last, renamer, looked, input,
                   parsed>>

NextTypecheck == Typecheck

InitTypecheck == \E e \in TypecheckInputs : InitAll(e, <<>>, <<>>, {GC_PERIOD}, <<>>)

SpecTypecheck == InitTypecheck /\ [][NextTypecheck]_vars

----------------------------------------------------------------------------
(* One call of parse on the tokens of an expression, the machine idle. *)

Parse ==
    /\ parsed = NotParsed
    /\ parsed' = parse(input)
    /\ UNCHANGED <<source, program, storage, values, environments, activations, step,
                   outcome, gc_every, overflow_checks, ref, last, renamer, looked, input,
                   typed>>

NextParser == Parse

InitParser == \E toks \in ParserInputs : InitAll(NoExpr, <<>>, <<>>, {GC_PERIOD}, toks)

SpecParser == InitParser /\ [][NextParser]_vars

----------------------------------------------------------------------------
(* Vocabulary of the properties *)

(* The loop has ended and exec has returned from the code after the loop *)
LoopEnded == last.inst = NoInst /\ outcome # Running

(* HasType(v, T): the run-time shape the type T stands for *)
HasType(v, T) ==
    \/ T.t = "Int" /\ v.tag = "Int"
    \/ T.t = "Bool" /\ v.tag = "Bool"
    \/ T.t = "Arrow" /\ v.tag = "Closure"

(* Every closure among the values of an environment or a stack points into heap *)
InBounds(v, heap) == v.tag = "Closure" => v.env < Len(heap)
EnvInBounds(env, heap) == \A n \in Names : InBounds(env[n], heap)
MachineInBounds(m) ==
    /\ \A i \in 1 .. Len(m.values) : InBounds(m.values[i], m.storage)
    /\ \A i \in 1 .. Len(m.environments) : EnvInBounds(m.environments[i], m.storage)
    /\ \A i \in 1 .. Len(m.storage) : EnvInBounds(m.storage[i], m.storage)

RECURSIVE Sim(_, _, _, _, _)
(* v1 over heap h1 and v2 over heap h2 denote the same value: equal ints or   *)
(* bools, or closures with the same arg and body whose environments bind the  *)
(* same names to values that denote the same (a bisimulation; `seen` holds    *)
(* the pairs of heap indices already under comparison)                        *)
Sim(v1, h1, v2, h2, seen) ==
    IF v1.tag # v2.tag THEN FALSE
    ELSE IF v1.tag # "Closure" THEN v1 = v2
    ELSE /\ v1.arg = v2.arg
         /\ v1.frame = v2.frame
         /\ v1.env < Len(h1)
         /\ v2.env < Len(h2)
         /\ \/ <<v1.env, v2.env>> \in seen
            \/ \A n \in Names :
                  Sim(h1[v1.env + 1][n], h1, h2[v2.env + 1][n], h2,
                      seen \cup {<<v1.env, v2.env>>})

(* The operands of the instruction the last iteration executed *)
Operand2 == Last(last.before.values)
Operand1 == Last(Front(last.before.values))
Below2 == Front(Front(last.before.values))
TwoInts ==
    /\ Len(last.before.values) >= 2
    /\ Operand1.tag = "Int"
    /\ Operand2.tag = "Int"
LastIsBinOp == last.inst.op \in {"Arith", "Cmp"}

----------------------------------------------------------------------------
(* C1: for every closed expression that typecheck accepts with type T, the   *)
(* run of the compiled program ends with a value of type T or with the       *)
(* 'Division by zero' error, never with a 'Fatal: ...' error; functions      *)
(* whose self name and argument name coincide included.                      *)
C1_TypeSafety ==
    (source # NoExpr /\ typecheck(source) # TypeError /\ outcome # Running) =>
        \/ outcome = Err(DivisionByZero)
        \/ outcome.kind = "Ok" /\ HasType(outcome.value, typecheck(source))

(* C2: with gc() run after every gc_every-th instruction the machine ends as *)
(* the machine that never collects does: the same error, the same Int or     *)
(* Bool, or a closure with the same body and the same denoted environment;   *)
(* and until then the two run in step, with stacks that denote the same.     *)
C2_GcTransparent ==
    /\ outcome.kind = ref.outcome.kind
    /\ outcome.kind = "Err" => outcome.message = ref.outcome.message
    /\ outcome.kind = "Ok" =>
          Sim(outcome.value, storage, ref.outcome.value, ref.m.storage, {})
    /\ step = ref.step
    /\ activations = ref.m.activations
    /\ Len(values) = Len(ref.m.values)
    /\ \A i \in 1 .. Len(values) :
          Sim(values[i], storage, ref.m.values[i], ref.m.storage, {})
    /\ Len(environments) = Len(ref.m.environments)
    /\ \A i \in 1 .. Len(environments) : \A n \in Names :
          Sim(environments[i][n], storage, ref.m.environments[i][n], ref.m.storage, {})

C2_Witness ==
    /\ gc_every = 1
    /\ outcome.kind = "Ok"
    /\ outcome.value.tag = "Closure"
    /\ outcome.value.env # ref.outcome.value.env
    /\ Len(storage) < Len(ref.m.storage)

(* C3: between two instructions, before and after a collection, every        *)
(* closure on the value stack, in an environment of the environment stack    *)
(* or in a heap environment has an env index below the heap length; Call     *)
(* never indexes the heap out of bounds.                                     *)
C3_ClosuresInBounds ==
    /\ MachineInBounds(Me)
    /\ MachineInBounds(last.executed)
    /\ ~(last.inst = Call /\ last.err = Panic)

C3_Witness ==
    /\ gc_every = 1
    /\ last.inst = Call
    /\ last.err = NoError
    /\ storage # <<>>
    /\ Len(storage) < Len(ref.m.storage)
    /\ \E n \in Names :
          /\ Last(environments)[n].tag = "Closure"
          /\ Last(environments)[n].env # Last(ref.m.environments)[n].env

(* C4 as claimed: for every program, when exec returns Ok the value stack    *)
(* held exactly one value and the environment stack exactly the initial      *)
(* empty environment when the loop ended.                                    *)
C4_Original ==
    outcome.kind = "Ok" =>
        /\ Len(last.before.values) = 1
        /\ last.before.environments = <<EmptyEnv>>

(* C4 as amended: for every program, when exec returns Ok the value stack    *)
(* held exactly one value when the loop ended; the environment stack held    *)
(* exactly the initial empty environment when the program is compiler output *)
C4_Amended ==
    outcome.kind = "Ok" =>
        /\ Len(last.before.values) = 1
        /\ source # NoExpr => last.before.environments = <<EmptyEnv>>

C4_Witness ==
    /\ outcome.kind = "Ok"
    /\ source # NoExpr
    /\ step >= 8
    /\ Len(last.before.values) = 1

(* C5: Div with Int operands op1 (below) and op2 = 0 (top) fails with        *)
(* 'Division by zero' for every op1, pushes no result, and no instruction    *)
(* executes afterwards.                                                      *)
C5_DivisionByZero ==
    (last.inst = Arith("Div") /\ TwoInts /\ Operand2.i = 0) =>
        /\ outcome = Err(DivisionByZero)
        /\ values = Below2
        /\ ~ENABLED Next

C5_Witness ==
    /\ last.inst = Arith("Div")
    /\ TwoInts
    /\ Operand2.i = 0
    /\ Operand1.i = MinInt
    /\ outcome = Err(DivisionByZero)

(* C6: an Arith or Cmp instruction on two Ints takes the top of the stack as *)
(* the right operand op2 and the value below as the left operand op1, and    *)
(* pushes op1 op op2, for all Int operands (a non-zero divisor for Div).     *)
C6_OperandOrder ==
    (LastIsBinOp /\ TwoInts /\ ~(last.inst = Arith("Div") /\ Operand2.i = 0)) =>
        /\ last.err = NoError
        /\ last.executed.values =
              Append(Below2,
                     CASE last.inst = Arith("Add") -> IntV(Wrap(Operand1.i + Operand2.i))
                       [] last.inst = Arith("Sub") -> IntV(Wrap(Operand1.i - Operand2.i))
                       [] last.inst = Arith("Mul") -> IntV(Wrap(Operand1.i * Operand2.i))
                       [] last.inst = Arith("Div") -> IntV(Wrap(TruncDiv(Operand1.i, Operand2.i)))
                       [] last.inst = Cmp("Lt") -> BoolV(Operand1.i < Operand2.i)
                       [] last.inst = Cmp("Eq") -> BoolV(Operand1.i = Operand2.i)
                       [] last.inst = Cmp("Gt") -> BoolV(Operand1.i > Operand2.i))

(* C7 as claimed: an Arith or Cmp instruction fails with 'Fatal: runtime     *)
(* type error :(' when the stack holds at least two values and one of the    *)
(* top two is not an Int, and with 'Fatal: empty stack :(' when the stack    *)
(* holds fewer than two values.                                              *)
C7_Original ==
    LastIsBinOp =>
        /\ (Len(last.before.values) >= 2 /\ ~TwoInts) => last.err = RuntimeTypeError
        /\ Len(last.before.values) < 2 => last.err = EmptyStack

(* C7 as amended: ... and when the stack holds fewer than two values it      *)
(* fails with 'Fatal: empty stack :(', except that a single value that is    *)
(* not an Int makes it fail with 'Fatal: runtime type error :('.             *)
C7_Amended ==
    LastIsBinOp =>
        /\ (Len(last.before.values) >= 2 /\ ~TwoInts) => last.err = RuntimeTypeError
        /\ Len(last.before.values) < 2 =>
              IF Len(last.before.values) = 1 /\ Operand2.tag # "Int"
              THEN last.err = RuntimeTypeError
              ELSE last.err = EmptyStack
        /\ last.err # NoError => outcome = Err(last.err) \/ outcome = Aborted

C7_Witness ==
    /\ LastIsBinOp
    /\ Len(last.before.values) = 1
    /\ Operand2.tag = "Bool"
    /\ outcome = Err(RuntimeTypeError)

(* C8: when the loop ends without an instruction error, exec returns Ok(v)   *)
(* iff the value stack holds exactly the one value v, 'Fatal: empty stack :(' *)
(* when it is empty and 'Fatal: more then one value on stack left :(' when   *)
(* it holds two or more.                                                     *)
C8_ExecResult ==
    /\ LoopEnded =>
          CASE Len(last.before.values) = 0 -> outcome = Err(EmptyStack)
            [] Len(last.before.values) = 1 -> outcome = Ok(last.before.values[1])
            [] OTHER -> outcome = Err("Fatal: more then one value on stack left :(")
    /\ outcome.kind = "Ok" => LoopEnded

C8_Witness ==
    /\ LoopEnded
    /\ Len(last.before.values) = 3
    /\ outcome = Err(LeftoverStack)

(* C9: Branch(t, f) pops the top value; on Bool(true) it makes t the frame   *)
(* that runs next, on Bool(false) f, on anything else it fails with 'Fatal:  *)
(* runtime type error :('; and when the branch frame is exhausted execution  *)
(* resumes with what followed Branch in the enclosing frame, so the loop     *)
(* does not end while an enclosing frame still holds instructions.           *)
C9_Branch ==
    /\ (last.inst.op = "Branch" /\ last.before.values # <<>>) =>
          IF Operand2.tag = "Bool"
          THEN /\ last.err = NoError
               /\ last.executed.values = Front(last.before.values)
               /\ last.executed.activations =
                     Append(fetch_instruction(last.before).m.activations,
                            IF Operand2.b THEN last.inst.tru ELSE last.inst.fls)
          ELSE last.err = RuntimeTypeError
    /\ LoopEnded => last.executed.activations = <<>>

(* C10: Var(n) pushes the value bound to n in the top environment and        *)
(* leaves the environments and the heap unchanged; when n is not bound       *)
(* there it fails with 'Fatal: undefined variable :('.                       *)
C10_Var ==
    last.inst.op = "Var" =>
        /\ last.executed.environments = last.before.environments
        /\ last.executed.storage = last.before.storage
        /\ IF /\ last.before.environments # <<>>
              /\ Last(last.before.environments)[last.inst.name] # Unbound
           THEN /\ last.err = NoError
                /\ last.executed.values =
                      Append(last.before.values,
                             Last(last.before.environments)[last.inst.name])
           ELSE /\ last.err = UndefinedVariable
                /\ last.executed.values = last.before.values

(* C11: PopEnv removes exactly the top environment from the environment     *)
(* stack and changes nothing else; executed when the environment stack is    *)
(* empty it fails with 'Fatal: no environment :(' and leaves the stack empty. *)
C11_PopEnv ==
    last.inst = PopEnv =>
        /\ last.executed.values = last.before.values
        /\ last.executed.storage = last.before.storage
        /\ last.executed.activations = fetch_instruction(last.before).m.activations
        /\ IF last.before.environments # <<>>
           THEN /\ last.err = NoError
                /\ last.executed.environments = Front(last.before.environments)
           ELSE /\ last.err = NoEnvironment
                /\ last.executed.environments = <<>>
                /\ outcome = Err("Fatal: no environment :(")

C11_Witness ==
    /\ last.inst = PopEnv
    /\ last.before.environments = <<>>
    /\ outcome = Err(NoEnvironment)
    /\ environments = <<>>

(* C12: as soon as one instruction returns an error, exec returns that error: *)
(* no gc() runs after the failing instruction (the machine is as the          *)
(* instruction left it) and no further instruction is fetched or executed     *)
(* (no step is possible any more), wherever in the program it fails.          *)
C12_ErrorPropagation ==
    last.err # NoError =>
        /\ last.err # Panic => outcome = Err(last.err)
        /\ Me = last.executed
        /\ ~ENABLED Next

C12_Witness ==
    /\ last.err = RuntimeTypeError
    /\ outcome = Err(RuntimeTypeError)
    /\ gc_every = 1
    /\ step = 3
    /\ activations # <<>>
    /\ storage # <<>>
    /\ gc(Me, "ascending").m.storage = <<>>

(* The lookups before the first lookup of the identifier looked up at position i *)
FirstLookup(i) == CHOOSE j \in 1 .. i :
    /\ looked[j].name = looked[i].name
    /\ \A k \in 1 .. j - 1 : looked[k].name # looked[i].name
DistinctBefore(i) == Cardinality({looked[k].name : k \in 1 .. FirstLookup(i) - 1})

(* C13 as claimed: no Name that the renamer assigns to a surface identifier  *)
(* is one of the reserved names 0, 1, 3, 5.                                  *)
C13_Original ==
    \A i \in 1 .. Len(looked) : looked[i].id \notin {0, 1, 3, 5}

(* C13 as amended: no Name that the renamer assigns to a surface identifier  *)
(* is one of the names the desugarer synthesises, 1 (anonymous self and      *)
(* fresh argument), 3 (dispatch function) or 5 (dispatch argument); the      *)
(* first identifier looked up is assigned 0, which the desugarer never uses. *)
C13_Amended ==
    /\ \A i \in 1 .. Len(looked) : looked[i].id \notin {ANON_SELF, DISPATCH_FUN, DISPATCH_ARG}
    /\ looked # <<>> => looked[1].id = 0

C13_Witness ==
    /\ Len(looked) = MaxLookups
    /\ Cardinality({looked[i].name : i \in 1 .. Len(looked)}) = MaxLookups
    /\ \E i \in 1 .. Len(looked) : looked[i].id > DISPATCH_ARG

(* C14: within one desugar run Renamer::lookup returns 2*k for the k-th      *)
(* distinct identifier in order of first lookup (k counts the distinct       *)
(* identifiers looked up before it, so the first gets 0), the same Name on   *)
(* every later lookup of that identifier, different Names for different      *)
(* identifiers, and only even Names.                                         *)
C14_Renamer ==
    /\ \A i \in 1 .. Len(looked) : looked[i].id = 2 * DistinctBefore(i)
    /\ \A i, j \in 1 .. Len(looked) :
          (looked[i].name = looked[j].name) <=> (looked[i].id = looked[j].id)
    /\ \A i \in 1 .. Len(looked) : looked[i].id % 2 = 0

C14_Witness ==
    /\ Len(looked) = 4
    /\ looked[1].name = looked[3].name
    /\ looked[1].id = 0
    /\ looked[2].id = 2
    /\ looked[3].id = 0
    /\ looked[4].id = 4


----------------------------------------------------------------------------
(* Claims about the desugarer, checked on runs of desugared programs       *)
(* (SpecIr).                                                               *)

(* The value of a body `x op c` of ArithBodies at x = n *)
ArithValue(body, n) ==
    CASE body.op = "Add" -> n + body.rhs.i
      [] body.op = "Sub" -> n - body.rhs.i
      [] body.op = "Mul" -> n * body.rhs.i

(* C15: `let fun f(x) is e1 in e2` desugars to                               *)
(* Apply{fun: Fun{self = 1, arg = f, body = e2'}, arg: Fun{self = f, arg = x, *)
(* body = e1'}}, e1' and e2' being the desugarings of e1 and e2 under the     *)
(* renamer of the run (f and x looked up first, then e1, then e2); and an     *)
(* inner `let fun f` shadows an outer one: a finished run of                  *)
(* `let fun f(x) is o in let fun f(x) is i in f n` returns the Int that the   *)
(* inner body i has at x = n.                                                 *)
C15_LetFun ==
    source.kind = "LetFun" =>
        LET f == Renamer_lookup(Renamer_empty, source.fun.name)
            x == Renamer_lookup(f.renamer, source.fun.arg_name)
            e1 == desugar_expr(source.fun.body, x.renamer)
            e2 == desugar_expr(source.body, e1.renamer)
        IN  /\ desugar(source) = Ir_Apply(Ir_Fun(ANON_SELF, f.id, e2.ir),
                                          Ir_Fun(f.id, x.id, e1.ir))
            /\ program = compile_ir(desugar(source))
            /\ \A o \in ArithBodies, i \in ArithBodies, n \in Args :
                  (source = ShadowOf(o, i, n) /\ outcome # Running)
                      => outcome = Ok(IntV(ArithValue(i, n)))

(* tests::let_shadowing at a small argument: the outer body doubles, the inner adds 2 *)
C15_Witness ==
    /\ source = ShadowOf(Expr_Arith("Mul", Id("x"), Num(2)),
                         Expr_Arith("Add", Id("x"), Num(2)), 1)
    /\ outcome = Ok(IntV(3))


(* The source is a `let rec` group of one function; ref runs its `let fun` twin *)
SingleLetRec == source.kind = "LetRec" /\ Len(source.funs) = 1

ReturnsClosure(o) == o.kind = "Ok" /\ o.value.tag = "Closure"

(* C16 as claimed: a finished run of a `let rec` group of one function f     *)
(* whose body refers only to itself has the same outcome as the run of the   *)
(* corresponding `let fun f ... in body`, for every body and argument.       *)
C16_Original ==
    (SingleLetRec /\ outcome # Running) => ref.outcome = outcome

(* C16 as amended: when the run of a `let rec` group of one function has     *)
(* finished, the run of the corresponding `let fun` has finished too, with   *)
(* the same Int, the same Bool or the same error; when one returns a closure *)
(* the other returns a closure as well, which need not be the same value     *)
(* (the `let rec` binds f to the wrapper that the dispatch function builds). *)
C16_Amended ==
    (SingleLetRec /\ outcome # Running) =>
        /\ ref.outcome # Running
        /\ IF ReturnsClosure(outcome) THEN ReturnsClosure(ref.outcome)
           ELSE ref.outcome = outcome

(* The recursive factorial as a `let rec` and as a `let fun`: the same Int, *)
(* the `let rec` run being the longer one                                   *)
C16_Witness ==
    /\ SingleLetRec
    /\ source.funs[1].body = FactorialBody
    /\ outcome = Ok(IntV(2))
    /\ ref.outcome = outcome
    /\ ref.step < step


(* C17: mutual recursion through the `let rec` desugaring computes the       *)
(* intended functions: a finished run of the odd/even group that calls odd n *)
(* returns Bool(n is odd), one that calls even n returns Bool(n is even),    *)
(* and a finished run of the div_by_3/mod_3 group that calls mod_3 n returns *)
(* Int(n mod 3), for every n of Args.                                        *)
C17_MutualRecursion ==
    outcome # Running =>
        \A n \in Args :
            /\ source = OddEvenOf("odd", n) => outcome = Ok(BoolV(n % 2 = 1))
            /\ source = OddEvenOf("even", n) => outcome = Ok(BoolV(n % 2 = 0))
            /\ source = Mod3Of(n) => outcome = Ok(IntV(n % 3))

(* mod_3 2 has returned 2, after more iterations than one collection period *)
C17_Witness ==
    /\ source = Mod3Of(2)
    /\ outcome = Ok(IntV(2))
    /\ step > GC_PERIOD


----------------------------------------------------------------------------
(* C18: arithmetic never crashes the machine: an Add, Sub or Mul on two Ints *)
(* pushes the two's-complement wrapped result, a Div with a non-zero divisor *)
(* pushes the quotient truncated toward zero (MinInt / -1 included), and no  *)
(* Arith instruction aborts the process.                                     *)
C18_ArithNeverCrashes ==
    (last.inst.op = "Arith" /\ TwoInts) =>
        /\ last.err # Panic
        /\ outcome # Aborted
        /\ ~(last.inst.kind = "Div" /\ Operand2.i = 0) =>
              /\ last.executed.values # <<>>
              /\ Last(last.executed.values) =
                    IntV(Wrap(arith_op(last.inst.kind, Operand1.i, Operand2.i)))


----------------------------------------------------------------------------
(* C19: execution is deterministic whatever order gc() visits the entries of *)
(* an environment in: from every state of a run the next iteration leads to  *)
(* the same machine state under either order, and the runs of a program      *)
(* under the two orders return equal outcomes (for a closure, with the same  *)
(* env index).                                                               *)
C19_Deterministic ==
    /\ (outcome = Running /\ step < MaxSteps /\ fetch_instruction(Me).some) =>
          exec_step(Here, TRUE, gc_every, overflow_checks, "ascending")
              = exec_step(Here, TRUE, gc_every, overflow_checks, "descending")
    /\ step = 0 =>
          exec(Here, gc_every, overflow_checks, "ascending", MaxSteps).outcome
              = exec(Here, gc_every, overflow_checks, "descending", MaxSteps).outcome


----------------------------------------------------------------------------
(* Claims about the parser (SpecParser).                                   *)

IsCmp(token) == token.t = "Sym" /\ token.sym \in CmpSyms

(* The number of parentheses open before the i-th token *)
Depth(tokens, i) ==
    Cardinality({k \in 1 .. i - 1 : tokens[k] = Token_Paren("Open")})
    - Cardinality({k \in 1 .. i - 1 : tokens[k] = Token_Paren("Close")})

(* Two comparison operators at the same nesting level of the same group: *)
(* no parenthesis of their level closes between them                     *)
Chained(tokens) ==
    \E i, j \in 1 .. Len(tokens) :
        /\ i < j
        /\ IsCmp(tokens[i])
        /\ IsCmp(tokens[j])
        /\ Depth(tokens, i) = Depth(tokens, j)
        /\ \A k \in i .. j : Depth(tokens, k) >= Depth(tokens, i)

(* `(1 == 2) == 3` and `1 < (2 > 3)` *)
GroupedLeft ==
    <<Token_Paren("Open"), Token_Number(1), Token_Sym("Eq"), Token_Number(2),
      Token_Paren("Close"), Token_Sym("Eq"), Token_Number(3)>>
GroupedRight ==
    <<Token_Number(1), Token_Sym("Lt"), Token_Paren("Open"), Token_Number(2),
      Token_Sym("Gt"), Token_Number(3), Token_Paren("Close")>>

(* C20: the parser rejects every expression in which two comparison          *)
(* operators (==, <, >) are chained at the same nesting level without        *)
(* parentheses, with or without arithmetic between them, with the error      *)
(* 'Chained comparisons are not allowed'; it accepts every other expression  *)
(* of ParserInputs, consuming all of it, and in particular `(1 == 2) == 3`   *)
(* as (== (== 1 2) 3) and `1 < (2 > 3)` as (< 1 (> 2 3)).                    *)
C20_ChainedComparisons ==
    parsed # NotParsed =>
        /\ Chained(input) => (~parsed.ok /\ parsed.msg = ChainedComparisons)
        /\ ~Chained(input) => (parsed.ok /\ parsed.pos = Len(input) + 1)
        /\ input = GroupedLeft =>
              parsed.expr = Expr_Cmp("Eq", Expr_Cmp("Eq", Expr_Number(1), Expr_Number(2)),
                                     Expr_Number(3))
        /\ input = GroupedRight =>
              parsed.expr = Expr_Cmp("Lt", Expr_Number(1),
                                     Expr_Cmp("Gt", Expr_Number(2), Expr_Number(3)))

(* `1 < 2 + 3 > 4` has been rejected at its second comparison *)
C20_Witness ==
    /\ input = <<Token_Number(1), Token_Sym("Lt"), Token_Number(2), Token_Sym("Add"),
                 Token_Number(3), Token_Sym("Gt"), Token_Number(4)>>
    /\ parsed = ParseErr(ChainedComparisons, Len(input) + 1)


----------------------------------------------------------------------------
(* C21: executed with a current environment, Closure{name, arg, frame}       *)
(* appends exactly one environment to the heap, at the index i that was the  *)
(* heap length before: the top environment plus name -> Closure(arg, frame,  *)
(* i); it pushes Closure(arg, frame, i); the environment stack, its top      *)
(* included, and the earlier heap entries are unchanged.                     *)
C21_Closure ==
    (last.inst.op = "Closure" /\ last.before.environments # <<>>) =>
        LET i == Len(last.before.storage)
            closure == ClosureV(last.inst.arg, last.inst.frame, i)
        IN  /\ last.err = NoError
            /\ last.executed.storage =
                  Append(last.before.storage,
                         [Last(last.before.environments) EXCEPT ![last.inst.name] = closure])
            /\ last.executed.values = Append(last.before.values, closure)
            /\ last.executed.environments = last.before.environments

(* A Closure executed inside a call: the heap already holds environments, the *)
(* top environment has bindings and does not gain the self binding            *)
C21_Witness ==
    /\ last.inst.op = "Closure"
    /\ last.err = NoError
    /\ Len(last.before.storage) >= 1
    /\ Len(last.before.environments) >= 2
    /\ \E n \in Names : Last(last.before.environments)[n] # Unbound
    /\ Last(last.executed.environments)[last.inst.name] = Unbound


(* C22: Call pops the argument (top) and then the callee; when the callee is *)
(* a Closure(arg, body, e) it pushes onto the environment stack a copy of    *)
(* heap[e] with arg -> argument, which overrides an existing binding of arg, *)
(* the self binding included, and pushes body onto the activation stack; the *)
(* heap, heap[e] in particular, is unchanged; when the callee is not a       *)
(* closure it fails with 'Fatal: runtime type error :('.                     *)
C22_Call ==
    (last.inst = Call /\ Len(last.before.values) >= 2) =>
        IF Operand1.tag = "Closure"
        THEN /\ last.err = NoError
             /\ last.executed.values = Below2
             /\ last.executed.environments =
                   Append(last.before.environments,
                          [n \in Names |->
                              IF n = Operand1.arg THEN Operand2
                              ELSE last.before.storage[Operand1.env + 1][n]])
             /\ last.executed.activations =
                   Append(fetch_instruction(last.before).m.activations, Operand1.frame)
             /\ last.executed.storage = last.before.storage
        ELSE /\ last.err = RuntimeTypeError
             /\ last.executed.values = Below2
             /\ outcome = Err("Fatal: runtime type error :(")

(* A call of a closure whose argument name is its self name: the argument *)
(* takes the place of the self binding in the new environment only        *)
C22_Witness ==
    /\ last.inst = Call
    /\ last.err = NoError
    /\ Len(last.before.values) >= 2
    /\ Operand1.tag = "Closure"
    /\ last.before.storage[Operand1.env + 1][Operand1.arg].tag = "Closure"
    /\ Operand2.tag = "Int"
    /\ Last(last.executed.environments)[Operand1.arg] = Operand2
    /\ last.executed.storage[Operand1.env + 1][Operand1.arg].tag = "Closure"


(* C23: the fetch loop stops only when the activation stack is empty: as long *)
(* as some activation on the stack holds an unexecuted instruction,           *)
(* fetch_instruction returns an instruction (an empty activation on top is    *)
(* discarded and the next one is used), so the run does not end with          *)
(* instructions of an enclosing frame left on the activation stack.           *)
C23_FetchLoop ==
    /\ (outcome = Running /\ \E k \in 1 .. Len(activations) : activations[k] # <<>>)
          => fetch_instruction(Me).some
    /\ (last.inst = NoInst /\ outcome # Running)
          => \A k \in 1 .. Len(last.before.activations) : last.before.activations[k] = <<>>


(* The PopEnv instructions the machine still owes: those waiting in the       *)
(* activations themselves (not the ones inside the frame of a Closure or the  *)
(* arms of a Branch that has not been executed)                               *)
PendingPopEnv(acts) ==
    Cardinality(UNION {{<<k, j>> : j \in {i \in 1 .. Len(acts[k]) : acts[k][i] = PopEnv}} :
                          k \in 1 .. Len(acts)})

Compiled == source # NoExpr

(* C24 as claimed: between any two instructions of the execution of a         *)
(* compiled program the length of the environment stack equals the number of  *)
(* PopEnv instructions still pending in the activation stack.                 *)
C24_Original ==
    (Compiled /\ outcome = Running) =>
        Len(environments) = PendingPopEnv(activations)

(* C24 as amended: between any two instructions of the execution of a         *)
(* compiled program the length of the environment stack is one more than the  *)
(* number of PopEnv instructions still pending in the activation stack: the   *)
(* initial environment of Machine::new is never popped.                       *)
C24_Amended ==
    (Compiled /\ outcome = Running) =>
        Len(environments) = 1 + PendingPopEnv(activations)

C24_Witness ==
    /\ Compiled
    /\ outcome = Running
    /\ last.inst = Call
    /\ last.err = NoError
    /\ Len(environments) = 3
    /\ PendingPopEnv(activations) = 2


----------------------------------------------------------------------------
(* The parts of the desugaring of a let rec group at the top of a program *)

IsGroup == source.kind = "LetRec"
GroupSize == Len(source.funs)
GroupFuns == desugar_funs(source.funs, GroupSize, Renamer_empty).irs
GroupNames == [k \in 1 .. GroupSize |-> GroupFuns[k].fun_name]
Dispatcher == desugar(source).arg

IsTagTest(ir) ==
    /\ ir.kind = "If"
    /\ ir.cond.kind = "BinOp" /\ ir.cond.op = "Eq"
    /\ ir.cond.lhs = Ir_Var(DISPATCH_ARG)
    /\ ir.cond.rhs.kind = "IntLiteral"

RECURSIVE TagTests(_)
(* The chain of tag tests of a conditional, outermost first, as pairs of the *)
(* tag tested and the expression returned for it                             *)
TagTests(ir) ==
    IF IsTagTest(ir)
    THEN <<[tag |-> ir.cond.rhs.i, returns |-> ir.tru]>> \o TagTests(ir.fls)
    ELSE <<>>

RECURSIVE FinalElse(_)
FinalElse(ir) == IF IsTagTest(ir) THEN FinalElse(ir.fls) ELSE ir

(* The outcome of applying the dispatch function to the tag t *)
Dispatched(t) ==
    exec([m |-> Machine_new(compile_ir(apply(Dispatcher, Ir_IntLiteral(t)))),
          step |-> 0, outcome |-> Running],
         GC_PERIOD, overflow_checks, "ascending", MaxSteps).outcome

(* What C25 states apart from the order of the tests *)
DispatchShape ==
    /\ Dispatcher.kind = "Fun"
    /\ Dispatcher.fun_name = 3
    /\ Dispatcher.arg_name = 5
    /\ Len(TagTests(Dispatcher.body)) = GroupSize
    /\ \A i \in 1 .. GroupSize :
          LET test == TagTests(Dispatcher.body)[i]
          IN  /\ test.tag \in 0 .. GroupSize - 1
              /\ test.returns = fun_wrapper(test.tag, GroupFuns[test.tag + 1], GroupNames)
    /\ FinalElse(Dispatcher.body) = Ir_BinOp("Div", Ir_IntLiteral(0), Ir_IntLiteral(0))
    /\ outcome # Running =>
          \A t \in {-1, GroupSize} : Dispatched(t) = Err("Division by zero")

(* C25 as claimed: the dispatch function of a let rec group f1..fn is         *)
(* Fun{self = 3, arg = 5} whose body tests the tag against 0 first, then 1,   *)
(* ..., then n-1, the i-th test returning wrap(i, f(i+1)), with 0/0 as the    *)
(* final else; applied to a tag outside 0..n-1 it fails with                  *)
(* 'Division by zero'.                                                        *)
C25_Original ==
    IsGroup =>
        /\ DispatchShape
        /\ \A i \in 1 .. GroupSize : TagTests(Dispatcher.body)[i].tag = i - 1

(* C25 as amended: the same, with the tests in the opposite order: the tag is *)
(* tested against n-1 first (outermost), then n-2, ..., then 0.               *)
C25_Amended ==
    IsGroup =>
        /\ DispatchShape
        /\ \A i \in 1 .. GroupSize : TagTests(Dispatcher.body)[i].tag = GroupSize - i

(* the run of c 0 in the group of three has returned 3 * 2 *)
C25_Witness ==
    /\ source = ThreeOf("c")
    /\ outcome = Ok(IntV(6))
    /\ Dispatched(3) = Err("Division by zero")


----------------------------------------------------------------------------
(* A let-binding of the IR: a function of self name 1 applied on the spot *)
IsLet(ir) ==
    /\ ir.kind = "Apply"
    /\ ir.fun.kind = "Fun"
    /\ ir.fun.fun_name = 1

RECURSIVE Peel(_, _)
(* The k outermost let-bindings of ir, outermost first, and what is under them *)
Peel(ir, k) ==
    IF k = 0 \/ ~IsLet(ir) THEN [bound |-> <<>>, rest |-> ir]
    ELSE LET inner == Peel(ir.fun.body, k - 1)
         IN  [bound |-> <<[name |-> ir.fun.arg_name, to |-> ir.arg]>> \o inner.bound,
              rest |-> inner.rest]

(* wrap(i, fi) as it stands in the dispatch function: what the test of tag i returns *)
WrapperOf(i) ==
    (CHOOSE test \in {TagTests(Dispatcher.body)[k] : k \in 1 .. GroupSize} : test.tag = i).returns

(* The thunk of the sibling with tag j: a function named as the sibling that  *)
(* passes its argument on to the dispatch function applied to j              *)
SiblingThunk(j) ==
    Ir_Fun(GroupNames[j + 1], 1,
           Ir_Apply(Ir_Apply(Ir_Var(3), Ir_IntLiteral(j)), Ir_Var(1)))

(* C26: for every let rec group of n functions and every i, wrap(i, fi) is a  *)
(* Fun with fi's self name and argument name whose body is fi's body wrapped  *)
(* in exactly n-1 let-bindings, one for each sibling fj with j # i and none   *)
(* for fi itself, each binding fj to                                          *)
(* Fun{self = fj, arg = 1, body = (Var 3 applied to IntLit j) applied to Var 1} *)
C26_Wrapper ==
    IsGroup =>
        \A i \in 0 .. GroupSize - 1 :
            LET fi == GroupFuns[i + 1]
                peeled == Peel(WrapperOf(i).body, GroupSize - 1)
            IN  /\ WrapperOf(i).kind = "Fun"
                /\ WrapperOf(i).fun_name = fi.fun_name
                /\ WrapperOf(i).arg_name = fi.arg_name
                /\ Len(peeled.bound) = GroupSize - 1
                /\ peeled.rest = fi.body
                /\ \A j \in (0 .. GroupSize - 1) \ {i} :
                      Cardinality({k \in 1 .. GroupSize - 1 :
                                      peeled.bound[k] = [name |-> GroupNames[j + 1],
                                                         to |-> SiblingThunk(j)]}) = 1

(* the run of b 0 in the group of three has ended, and the wrapper of c binds *)
(* a and b                                                                    *)
C26_Witness ==
    /\ source = ThreeOf("b")
    /\ outcome = Ok(IntV(2))
    /\ Len(Peel(WrapperOf(2).body, 3).bound) = 2


----------------------------------------------------------------------------
(* The desugared `in` part of the group at the top of the program *)
GroupBody ==
    desugar_expr(source.body, desugar_funs(source.funs, GroupSize, Renamer_empty).renamer).ir

(* C27: the desugaring of `let rec f1..fn in body` is                         *)
(* Apply{Fun{self = 1, arg = 3, body = B}, D}, where D is the dispatch        *)
(* function and B is desugar(body) nested inside exactly n immediate          *)
(* applications, the i-th binding the name of f(i+1) to (Var 3 applied to     *)
(* IntLit i); so in body every fi is bound to the closure D returns for tag i *)
(* and tag i denotes the i-th function in source order: in the group of       *)
(* three, a 0 returns 1, b 0 returns 2 and c 0 returns 3 * 2.                 *)
C27_LetRec ==
    IsGroup =>
        LET ir == desugar(source)
            B == Peel(ir.fun.body, GroupSize)
        IN  /\ ir.kind = "Apply"
            /\ ir.fun.kind = "Fun" /\ ir.fun.fun_name = 1 /\ ir.fun.arg_name = 3
            /\ ir.arg.kind = "Fun" /\ ir.arg.fun_name = 3 /\ ir.arg.arg_name = 5
            /\ Len(TagTests(ir.arg.body)) = GroupSize
            /\ Len(B.bound) = GroupSize
            /\ B.rest = GroupBody
            /\ \A i \in 0 .. GroupSize - 1 :
                  Cardinality({k \in 1 .. GroupSize :
                                  B.bound[k] = [name |-> GroupNames[i + 1],
                                                to |-> Ir_Apply(Ir_Var(3), Ir_IntLiteral(i))]}) = 1
            /\ outcome # Running =>
                  /\ source = ThreeOf("a") => outcome = Ok(IntV(1))
                  /\ source = ThreeOf("b") => outcome = Ok(IntV(2))
                  /\ source = ThreeOf("c") => outcome = Ok(IntV(6))

(* the run of a 0 in the group of three has returned 1 *)
C27_Witness ==
    /\ source = ThreeOf("a")
    /\ outcome = Ok(IntV(1))
    /\ Len(Peel(desugar(source).fun.body, GroupSize).bound) = 3


----------------------------------------------------------------------------
(* C28: name scoping in let rec is preserved by the desugaring: inside the    *)
(* body of a group member fi an occurrence of fi's own parameter name refers  *)
(* to the argument passed to fi, also when the parameter is named as a        *)
(* sibling: `let rec fun f(g) is g + 1 and fun g(x) is f x in f n` returns    *)
(* n + 1, as it does with the parameter of f renamed to x.                    *)
C28_Scoping ==
    outcome # Running =>
        \A n \in Args :
            source \in {ParamNamedAsSibling(n), ParamRenamed(n)} => outcome = Ok(IntV(n + 1))


----------------------------------------------------------------------------
(* The code of the two parts of a program that is a BinOp (lhs, rhs) or an   *)
(* Apply (fun, arg), and the instruction that ends it                        *)
IsBinOp == source.kind \in {"ArithBinOp", "CmpBinOp"}
IsApply == source.kind = "Apply"
FirstPart == compile_expr(IF IsBinOp THEN source.lhs ELSE source.fun, <<>>)
SecondPart == compile_expr(IF IsBinOp THEN source.rhs ELSE source.arg, FirstPart.names).frame
Closing ==
    IF IsApply THEN Call
    ELSE IF source.kind = "ArithBinOp" THEN Arith(source.op) ELSE Cmp(source.op)

(* The machine is about to fetch the first instruction of the second part,   *)
(* and the instruction that ends the program                                 *)
SecondStarts == last.before.activations = <<Append(SecondPart, Closing)>>
ClosingStarts == last.before.activations = <<<<Closing>>>>

(* C29: for a BinOp the emitted frame is code(lhs) ++ code(rhs) ++ [op] and   *)
(* for an Apply code(fun) ++ code(arg) ++ [Call]; at run time the first       *)
(* instruction of the right operand (of the argument) executes when the left  *)
(* operand (the function) has left its value and nothing else, every call it  *)
(* made has returned; the op (the Call) executes with both values on the      *)
(* stack, and the callee's frame is entered only then.                        *)
C29_EvalOrder ==
    (IsBinOp \/ IsApply) =>
        /\ program = Append(FirstPart.frame \o SecondPart, Closing)
        /\ SecondStarts =>
              /\ last.inst = Head(SecondPart)
              /\ Len(last.before.values) = 1
              /\ Len(last.before.environments) = 1
        /\ ClosingStarts =>
              /\ last.inst = Closing
              /\ Len(last.before.values) = 2
              /\ Len(last.before.environments) = 1
              /\ (IsApply /\ last.err = NoError) =>
                    last.executed.activations = <<Operand1.frame>>

(* (f 0) (g 2): the argument starts with the closure f 0 returned on the     *)
(* stack                                                                     *)
C29_Witness ==
    /\ IsApply
    /\ source.fun.kind = "Apply"
    /\ SecondStarts
    /\ last.before.values # <<>>
    /\ Last(last.before.values).tag = "Closure"
    /\ step >= 5


----------------------------------------------------------------------------
(* The positions of PopEnv in a frame, at the level of the frame itself *)
PopEnvAt(frame) == {k \in 1 .. Len(frame) : frame[k] = PopEnv}

RECURSIVE PopEnvPlaced(_, _)
(* Every frame a Closure of `frame` refers to, at any depth, ends with its    *)
(* only PopEnv, the frames of every Branch hold none, and `frame` itself      *)
(* ends with its only PopEnv when it is the frame of a closure and holds none *)
(* otherwise                                                                  *)
PopEnvPlaced(frame, of_closure) ==
    /\ PopEnvAt(frame) = IF of_closure THEN {Len(frame)} ELSE {}
    /\ of_closure => frame # <<>>
    /\ \A k \in 1 .. Len(frame) :
          /\ frame[k].op = "Closure" => PopEnvPlaced(frame[k].frame, TRUE)
          /\ frame[k].op = "Branch" =>
                /\ PopEnvPlaced(frame[k].tru, FALSE)
                /\ PopEnvPlaced(frame[k].fls, FALSE)

RECURSIVE HasBranchInClosure(_, _)
HasBranchInClosure(frame, of_closure) ==
    \E k \in 1 .. Len(frame) :
        \/ frame[k].op = "Branch" /\ of_closure
        \/ frame[k].op = "Closure" /\ HasBranchInClosure(frame[k].frame, TRUE)

(* C30: in every program produced by compile, each frame referenced by a      *)
(* Closure instruction ends with PopEnv and contains PopEnv nowhere else, and *)
(* neither the entry frame nor any frame referenced by a Branch instruction   *)
(* contains a PopEnv at its own level; so a PopEnv is only ever executed as   *)
(* the last instruction of an activation.                                     *)
C30_PopEnvPlacement ==
    Compiled =>
        /\ PopEnvPlaced(program, FALSE)
        /\ last.inst = PopEnv =>
              Len(fetch_instruction(last.before).m.activations) = Len(last.before.activations) - 1

(* a PopEnv of a closure whose frame holds a Branch has been executed, in an *)
(* arm of the Branch                                                         *)
C30_Witness ==
    /\ Compiled
    /\ HasBranchInClosure(program, FALSE)
    /\ last.inst = PopEnv
    /\ last.err = NoError
    /\ step >= 6


----------------------------------------------------------------------------
RECURSIVE run_to_return(_, _, _, _, _, _)
(* Machine::exec from `run` on, up to the iteration that brings the          *)
(* environment stack down to `depth` environments; `by` is the instruction   *)
(* of that iteration                                                         *)
run_to_return(run, depth, period, oc, ord, fuel) ==
    IF run.outcome # Running \/ fuel = 0 \/ ~fetch_instruction(run.m).some
    THEN [returned |-> FALSE, run |-> run, by |-> NoInst]
    ELSE LET next == exec_step(run, TRUE, period, oc, ord)
         IN  IF next.outcome = Running /\ Len(next.m.environments) <= depth
             THEN [returned |-> TRUE, run |-> next, by |-> fetch_instruction(run.m).inst]
             ELSE CHOOSE end \in {run_to_return(n, depth, period, oc, ord, fuel - 1) :
                                     n \in {next}} : TRUE

(* The last iteration executed a Call of a compiled program *)
Called == Compiled /\ last.inst = Call /\ last.err = NoError /\ outcome = Running

(* Where the call the last iteration made returns, collecting in the order ord *)
Return(ord) ==
    run_to_return(Here, Len(last.before.environments), gc_every, overflow_checks, ord, MaxSteps)

(* The stacks of m are those of the machine before the Call, with one value  *)
(* in the place of callee and argument, up to the renaming of heap indices   *)
Returned(m) ==
    /\ Len(m.environments) = Len(last.before.environments)
    /\ \A i \in 1 .. Len(m.environments) : \A n \in Names :
          Sim(m.environments[i][n], m.storage,
              last.before.environments[i][n], last.before.storage, {})
    /\ Len(m.values) = Len(Below2) + 1
    /\ \A i \in 1 .. Len(Below2) :
          Sim(m.values[i], m.storage, Below2[i], last.before.storage, {})
    /\ m.activations = fetch_instruction(last.before).m.activations

(* C31: call/return protocol for compiled programs: when the PopEnv that ends *)
(* a called lambda body has executed, the environment stack is what it was    *)
(* immediately before the matching Call (same length, same bindings, closure  *)
(* indices up to the renaming of collections), exactly one value has replaced *)
(* the callee and the argument on the value stack, and the activation stack   *)
(* is what the Call's fetch left: the next instruction executed is the one    *)
(* that followed the Call in the caller's frame.                              *)
C31_CallReturn ==
    Called =>
        \A ord \in KeyOrders :
            Return(ord).returned =>
                /\ Return(ord).by = PopEnv
                /\ Returned(Return(ord).run.m)

(* a call made inside a called body returns to the rest of that body, with a *)
(* collection after every instruction in between                             *)
C31_Witness ==
    /\ Called
    /\ gc_every = 1
    /\ Len(last.before.environments) >= 2
    /\ fetch_instruction(last.before).m.activations # <<>>
    /\ Return("ascending").returned
    /\ Return("ascending").run.step >= step + 6


----------------------------------------------------------------------------
(* The heap indices of the closures among the values of the stacks of m, and *)
(* those of the closures an environment of the heap binds                    *)
Roots(m) ==
    {m.values[i].env : i \in {k \in 1 .. Len(m.values) : m.values[k].tag = "Closure"}}
    \cup UNION {{m.environments[i][n].env : n \in {k \in Names : m.environments[i][k].tag = "Closure"}} :
                  i \in 1 .. Len(m.environments)}
PointsTo(heap, e) == {heap[e + 1][n].env : n \in {k \in Names : heap[e + 1][k].tag = "Closure"}}

RECURSIVE ReachableFrom(_, _)
ReachableFrom(set, heap) ==
    LET more == set \cup UNION {PointsTo(heap, e) : e \in set}
    IN  IF more = set THEN set ELSE ReachableFrom(more, heap)

(* The heap indices reachable from the value stack and the environment stack *)
Reachable(m) == ReachableFrom(Roots(m), m.storage)

(* The machine the last iteration left to a collection, had one been due *)
Collectable == last.inst # NoInst /\ last.err = NoError
Old == last.executed
(* The closure at values[i] shares its environment with the closure that     *)
(* this environment binds to n                                               *)
Shared(m, i, n) ==
    /\ i <= Len(m.values)
    /\ m.values[i].tag = "Closure"
    /\ m.storage[m.values[i].env + 1][n].tag = "Closure"
    /\ m.storage[m.values[i].env + 1][n].env = m.values[i].env

(* C32: after gc() the heap contains exactly the environments that were       *)
(* reachable (transitively through closure values) from the value stack and   *)
(* the environment stack before the collection, each exactly once, so         *)
(* closures that shared one environment before still share one after; the    *)
(* heap length never increases (the assertion always holds).  Checked for the *)
(* collection of every machine an instruction leaves, under both key orders,  *)
(* and the collection the run made is one of them.                            *)
C32_GcKeepsReachable ==
    Collectable =>
        /\ \A ord \in KeyOrders :
              LET new == gc(Old, ord)
                  r == moved(Old, ord)
                  live == {e \in 0 .. Len(Old.storage) - 1 : r[e] # NotMoved}
              IN  /\ new.err = NoError
                  /\ Len(new.m.storage) <= Len(Old.storage)
                  /\ live = Reachable(Old)
                  /\ {r[e] : e \in live} = 0 .. Len(new.m.storage) - 1
                  /\ Cardinality(live) = Len(new.m.storage)
                  /\ \A i \in 1 .. Len(Old.values) :
                        Old.values[i].tag = "Closure" =>
                            new.m.values[i].env = r[Old.values[i].env]
                  /\ \A i \in 1 .. Len(Old.environments) : \A n \in Names :
                        Old.environments[i][n].tag = "Closure" =>
                            new.m.environments[i][n].env = r[Old.environments[i][n].env]
        /\ (gc_due(step, gc_every) /\ outcome # Aborted) =>
              \E ord \in KeyOrders : Me = gc(Old, ord).m

(* a collection of the run has dropped an environment and moved one that a   *)
(* closure of the value stack and a binding of that environment share        *)
C32_Witness ==
    /\ Collectable
    /\ gc_due(step, gc_every)
    /\ outcome = Running
    /\ Len(storage) < Len(Old.storage)
    /\ \E i \in 1 .. Len(values) : \E n \in Names :
          /\ Shared(Old, i, n)
          /\ Shared(Me, i, n)
          /\ values[i].env # Old.values[i].env


----------------------------------------------------------------------------
(* The value v with the heap index of a closure renamed by r *)
Renamed(v, r) == IF v.tag = "Closure" THEN [v EXCEPT !.env = r[v.env]] ELSE v

(* C33: gc() is pure compaction: it leaves the activation stack, the lengths  *)
(* of the value and environment stacks, every Int and Bool value, the key set *)
(* of every environment and the arg and frame of every closure unchanged, and *)
(* there is a one-to-one renaming r of live heap indices (the map `moved`)    *)
(* such that every closure with env e before has env r(e) after and           *)
(* new_heap[r(e)] has the bindings of old_heap[e] with closure indices        *)
(* renamed by r.                                                              *)
C33_GcCompacts ==
    Collectable =>
        \A ord \in KeyOrders :
            LET new == gc(Old, ord).m
                r == moved(Old, ord)
                live == {e \in 0 .. Len(Old.storage) - 1 : r[e] # NotMoved}
            IN  /\ new.activations = Old.activations
                /\ new.values = [i \in 1 .. Len(Old.values) |-> Renamed(Old.values[i], r)]
                /\ new.environments =
                      [i \in 1 .. Len(Old.environments) |->
                          [n \in Names |-> Renamed(Old.environments[i][n], r)]]
                /\ \A e \in live :
                      /\ r[e] \in 0 .. Len(new.storage) - 1
                      /\ new.storage[r[e] + 1] = [n \in Names |-> Renamed(Old.storage[e + 1][n], r)]
                /\ \A e1 \in live : \A e2 \in live : r[e1] = r[e2] => e1 = e2
                /\ \A i \in 1 .. Len(Old.values) :
                      Old.values[i].tag = "Closure" => Old.values[i].env \in live

(* a collection of the run has renamed a heap index to a different one in a  *)
(* heap that keeps two environments or more, one of which binds a closure of *)
(* another                                                                   *)
C33_Witness ==
    /\ Collectable
    /\ gc_due(step, gc_every)
    /\ outcome = Running
    /\ Len(storage) >= 2
    /\ \E ord \in KeyOrders :
          /\ Me = gc(Old, ord).m
          /\ \E e \in 0 .. Len(Old.storage) - 1 :
                /\ moved(Old, ord)[e] \notin {NotMoved, e}
                /\ PointsTo(Old.storage, e) \ {e} # {}


----------------------------------------------------------------------------
(* The syntax-directed typing rules.  A typing context G gives every          *)
(* identifier in scope its type, and Absent to the others.                    *)
Absent == [t |-> "Absent"]
TypeIdents == Idents \cup {"g", "y", "id"}
NoBindings == [i \in TypeIdents |-> Absent]
TypeUniverse == Types \cup {Type_Arrow(a, b) : a \in Types, b \in Types}

RECURSIVE Derives(_, _, _)
(* The rules derive G |- e : T *)
Derives(G, e, T) ==
    CASE e.kind = "Var" -> G[e.ident] = T
      [] e.kind = "Number" -> T = Type_Int
      [] e.kind = "Bool" -> T = Type_Bool
      [] e.kind = "ArithBinOp" ->
            T = Type_Int /\ Derives(G, e.lhs, Type_Int) /\ Derives(G, e.rhs, Type_Int)
      [] e.kind = "CmpBinOp" ->
            T = Type_Bool /\ Derives(G, e.lhs, Type_Int) /\ Derives(G, e.rhs, Type_Int)
      [] e.kind = "If" ->
            Derives(G, e.cond, Type_Bool) /\ Derives(G, e.tru, T) /\ Derives(G, e.fls, T)
      [] e.kind = "Fun" ->
            /\ T = Type_Arrow(e.arg_type, e.fun_type)
            /\ Derives([[G EXCEPT ![e.arg_name] = e.arg_type] EXCEPT ![e.name] = T],
                       e.body, e.fun_type)
      [] e.kind = "Apply" ->
            \E A \in TypeUniverse : Derives(G, e.fun, Type_Arrow(A, T)) /\ Derives(G, e.arg, A)

LetFree == source.kind # "LetFun"

(* C34: typecheck implements the syntax-directed rules: arithmetic needs two  *)
(* int operands and gives int; a comparison needs two int operands and gives  *)
(* bool (`true == true` is rejected); `if` needs a bool condition and two     *)
(* arms of equal type; `fun f(x: A): R is e` gives A -> R when e has type R   *)
(* with x: A and f: A -> R in scope (f's binding being the later one); an     *)
(* application needs a function of type A -> R and an argument of type        *)
(* exactly A and gives R; an unbound variable is an error.  For every         *)
(* expression of TypecheckInputs it returns Ok(T) exactly when the rules      *)
(* derive T, and Err otherwise; the expressions of the tests of typecheck.rs  *)
(* are accepted and rejected as the tests say.                                *)
C34_Typecheck ==
    typed # NotTyped =>
        /\ LetFree =>
              /\ typed # TypeError => Derives(NoBindings, source, typed)
              /\ \A T \in (TypeUniverse \cup {typed}) \ {TypeError} :
                    Derives(NoBindings, source, T) => typed = T
        /\ source \in TypecheckValid => typed # TypeError
        /\ source \in TypecheckFails => typed = TypeError

(* `fun f(x: int): int -> int is f` applied to 0 has been given int -> int   *)
C34_Witness ==
    /\ source.kind = "Apply"
    /\ source.fun.kind = "Fun"
    /\ source.fun.body = Expr_Var("f")
    /\ typed = Type_Arrow(Type_Int, Type_Int)


----------------------------------------------------------------------------
(* The program applies a function whose self name and argument name are the  *)
(* same identifier, and the type checker accepts it                          *)
SameNamed ==
    /\ source # NoExpr
    /\ source.kind = "Apply"
    /\ source.fun.kind = "Fun"
    /\ source.fun.name = source.fun.arg_name
    /\ typecheck(source) # TypeError

(* The type the context of Fun::check gives the identifier inside the body *)
TypeInBody ==
    LET fun == source.fun
        inner == ctx_push(ctx_push(<<>>, fun.arg_name, fun.arg_type), fun.name,
                          maps_to(fun.arg_type, fun.fun_type))
    IN  ctx_lookup(inner, fun.name)

(* C35: name resolution agrees between the type checker and the machine: for  *)
(* a function whose self name and argument name are the same identifier, the  *)
(* identifier is resolved in the body to the same binding by the context of   *)
(* typecheck and by the environment Call builds: once the function has been   *)
(* called, the top environment binds the identifier to a value of the type    *)
(* the type checker gave it in the body.                                      *)
C35_NameResolution ==
    (SameNamed /\ last.inst = Call /\ last.err = NoError
        /\ Len(last.before.environments) = 1) =>
        HasType(Last(last.executed.environments)[Operand1.arg], TypeInBody)


----------------------------------------------------------------------------
(* C36: no instruction sequence makes the machine abort instead of returning  *)
(* a Result: exec ends with Ok or Err, and in particular, after a PopEnv has  *)
(* removed the last environment from the environment stack, a following Var   *)
(* or Closure instruction returns a 'Fatal: ...' error or a value rather than *)
(* panicking on the missing current environment.                              *)
C36_NoAbort ==
    /\ outcome # Aborted
    /\ (last.inst.op \in {"Var", "Closure"} /\ last.before.environments = <<>>) =>
          last.err # Panic


----------------------------------------------------------------------------
RECURSIVE ClosuresOf(_)
(* The Closure instructions of a frame, at any depth *)
ClosuresOf(frame) ==
    UNION {IF frame[k].op = "Closure" THEN {frame[k]} \cup ClosuresOf(frame[k].frame)
           ELSE IF frame[k].op = "Branch"
           THEN ClosuresOf(frame[k].tru) \cup ClosuresOf(frame[k].fls)
           ELSE {} : k \in 1 .. Len(frame)}

(* The self names of the Closure instructions that make the closure v *)
SelfNames(v) == {c.name : c \in {d \in ClosuresOf(program) : d.arg = v.arg /\ d.frame = v.frame}}

(* The environment at index i of heap binds a self name of a closure over i  *)
(* to that closure                                                           *)
SelfBound(heap, i) ==
    \E n \in Names :
        /\ heap[i + 1][n].tag = "Closure"
        /\ heap[i + 1][n].env = i
        /\ n \in SelfNames(heap[i + 1][n])

HeapSelfBound(m) == \A i \in 0 .. Len(m.storage) - 1 : SelfBound(m.storage, i)

(* The callee of the Call the last iteration executed is what its own self   *)
(* names are bound to in the environment of the body                         *)
CalleeSelfBound ==
    \A n \in SelfNames(Operand1) : Last(last.executed.environments)[n] = Operand1

(* C37: self-reference invariant: in every reachable state, every heap        *)
(* environment at index i, created by a Closure{name, ..} instruction, binds  *)
(* name to a closure whose env index is i itself, before and after every      *)
(* collection, so a recursive call by the bound name always reaches the same  *)
(* closure: the environment a Call builds for the body binds the callee's     *)
(* self name to the callee.                                                   *)
C37_SelfReference ==
    /\ HeapSelfBound(Me)
    /\ HeapSelfBound(last.executed)
    /\ (last.inst = Call /\ last.err = NoError) => CalleeSelfBound


----------------------------------------------------------------------------
RECURSIVE run_to_completion(_, _, _, _, _, _)
(* Machine::exec from `run` on, up to the iteration that leaves `depth`      *)
(* activations or fewer on the activation stack                              *)
run_to_completion(run, depth, period, oc, ord, fuel) ==
    IF run.outcome # Running \/ fuel = 0 \/ ~fetch_instruction(run.m).some
    THEN [completed |-> FALSE, run |-> run]
    ELSE LET next == exec_step(run, TRUE, period, oc, ord)
         IN  IF next.outcome = Running /\ Len(next.m.activations) <= depth
             THEN [completed |-> TRUE, run |-> next]
             ELSE CHOOSE end \in {run_to_completion(n, depth, period, oc, ord, fuel - 1) :
                                     n \in {next}} : TRUE

(* The stacks the code of an expression is started on: S, E and A *)
StartValues == {<<>>, <<IntV(2)>>, <<BoolV(TRUE), IntV(0)>>}
StartEnvironments == {<<EmptyEnv>>, <<EmptyEnv, EmptyEnv>>}
StartActivations == {<<>>, <<<<PushInt(2)>>>>, <<<<PopEnv>>, <<Call, PopEnv>>>>}

(* The run of the program's code from S, E and A to its completion *)
CodeRun(S, E, A) ==
    run_to_completion([m |-> [storage |-> <<>>, values |-> S, environments |-> E,
                              activations |-> Append(A, program)],
                       step |-> 0, outcome |-> Running],
                      Len(A), gc_every, overflow_checks, "ascending", MaxSteps)

Disciplined(S, E, A) ==
    LET end == CodeRun(S, E, A)
    IN  end.completed =>
            /\ Len(end.run.m.values) = Len(S) + 1
            /\ Front(end.run.m.values) = S
            /\ Len(end.run.m.environments) = Len(E)
            /\ Last(end.run.m.environments) = Last(E)
            /\ end.run.m.activations = A

(* C38: stack discipline of compiled code: for every expression e, if the     *)
(* instructions compile emits for e run to completion without error starting  *)
(* from value stack S, environment stack E and activation stack A, then       *)
(* afterwards the value stack is S plus exactly one value, the environment    *)
(* stack has the same length and top environment as E, and the activation     *)
(* stack is A again; therefore a compiled program that terminates normally    *)
(* never reports leftover or empty stack.                                     *)
C38_StackDiscipline ==
    Compiled =>
        /\ outcome # Running =>
              \A S \in StartValues : \A E \in StartEnvironments : \A A \in StartActivations :
                  Disciplined(S, E, A)
        /\ (LoopEnded /\ last.before.activations = <<>>) =>
              outcome \notin {Err(EmptyStack), Err(LeftoverStack)}

(* the run of a program that makes a call has ended with a value, and its    *)
(* code completes on two values, two environments and two activations        *)
C38_Witness ==
    /\ Compiled
    /\ outcome.kind = "Ok"
    /\ step >= 8
    /\ CodeRun(<<BoolV(TRUE), IntV(0)>>, <<EmptyEnv, EmptyEnv>>,
               <<<<PopEnv>>, <<Call, PopEnv>>>>).completed


----------------------------------------------------------------------------
RECURSIVE HasCall(_)
(* The frame holds a Call, at any nesting depth of Branch frames *)
HasCall(frame) ==
    \E k \in 1 .. Len(frame) :
        \/ frame[k] = Call
        \/ frame[k].op = "Branch" /\ (HasCall(frame[k].tru) \/ HasCall(frame[k].fls))

RECURSIVE SizeFrom(_, _)
(* The number of instructions of frame[k ..], those of the frames of its     *)
(* Branch and Closure instructions included                                  *)
SizeFrom(frame, k) ==
    IF k > Len(frame) THEN 0
    ELSE 1 + SizeFrom(frame, k + 1)
           + (IF frame[k].op = "Branch"
              THEN SizeFrom(frame[k].tru, 1) + SizeFrom(frame[k].fls, 1)
              ELSE IF frame[k].op = "Closure" THEN SizeFrom(frame[k].frame, 1) ELSE 0)
Size(frame) == SizeFrom(frame, 1)

CallFree == ~HasCall(program)

(* Programs without a Call: one operand at most, any one instruction but     *)
(* Call and a continuation; the hand-written ones; and the code of the       *)
(* expressions that are no function and no application                       *)
CallFreePrograms ==
    {p \in {pre \o mid \o post : pre \in SeqsUpTo(Operands, 1), mid \in Middles, post \in Tails}
           \cup TestPrograms : ~HasCall(p)}
CallFreeExprs == {e \in SourceExprs \cap Bodies : ~HasCall(compile(e))}

(* The runs of the programs without a Call; every iteration of the loop of   *)
(* exec that can be taken is taken eventually                                *)
InitTermination ==
    \/ \E p \in CallFreePrograms : InitWith(NoExpr, p, {GC_PERIOD, 1})
    \/ \E e \in CallFreeExprs : InitWith(e, compile(e), {GC_PERIOD, 1})

(* The loop of exec can go round: that is ENABLED <<Next>>_vars, every step  *)
(* of Next changing step or outcome                                          *)
LoopCanStep == outcome = Running /\ (fetch_instruction(Me).some => step < StepLimit)

(* Weak fairness of Next, WF_vars(Next), with its ENABLED written out *)
LoopRuns == []<>(~LoopCanStep) \/ []<><<Next>>_vars

SpecTermination == InitTermination /\ [][Next]_vars /\ LoopRuns

(* C39: for every program that contains no Call instruction (at any nesting   *)
(* depth of Branch frames) exec terminates, executing at most as many         *)
(* instructions as the program contains in total.                             *)
C39_Termination ==
    /\ [](CallFree => step <= Size(program))
    /\ (CallFree ~> outcome # Running)

(* tests::branch has returned 2 + -1 after 7 of its 9 instructions *)
C39_Witness ==
    /\ program = BranchProgram
    /\ CallFree
    /\ outcome = Ok(IntV(1))
    /\ step = 7

=============================================================================
